---- MODULE Spec2Model ----
(***************************************************************************)
(* Intent / parameter extraction pipeline of the financial chat backend.   *)
(*                                                                         *)
(*   src/api/agent_service.py                       AIAgent.processUserInput*)
(*   src/temp_snapshot_v2_2026-01-19/api/pattern_matcher.py                *)
(*                                                  ScenarioPatternMatcher *)
(*                                                                         *)
(* Texts are sequences of characters.  Every character is a one-character  *)
(* string, except the pound sign, which is the token Pound.  The regular   *)
(* expressions of the code are translated to operators over these          *)
(* sequences that return what re.search / re.sub return on them.           *)
(***************************************************************************)
EXTENDS Integers, Sequences, FiniteSets, TLC

(***************************************************************************)
(* Characters and character classes (Python str / re semantics, ASCII).    *)
(***************************************************************************)
Pound == "GBP"
EOS == "EOS"

UpperCase == << "A","B","C","D","E","F","G","H","I","J","K","L","M",
                "N","O","P","Q","R","S","T","U","V","W","X","Y","Z" >>
LowerCase == << "a","b","c","d","e","f","g","h","i","j","k","l","m",
                "n","o","p","q","r","s","t","u","v","w","x","y","z" >>
Digits == << "0","1","2","3","4","5","6","7","8","9" >>

Range(f) == { f[i] : i \in DOMAIN f }

WordCharSet == Range(Digits) \cup Range(UpperCase) \cup Range(LowerCase) \cup {"_"}
SpaceSet == {" ", "\t", "\n"}
LowerOf == [c \in Range(UpperCase) |-> LowerCase[CHOOSE i \in DOMAIN UpperCase : UpperCase[i] = c]]
DigitValueOf == [c \in Range(Digits) |-> (CHOOSE i \in DOMAIN Digits : Digits[i] = c) - 1]

\* str.lower() on one character
LowerChar(c) == IF c \in DOMAIN LowerOf THEN LowerOf[c] ELSE c

\* str.lower()
Lower(s) == [i \in DOMAIN s |-> LowerChar(s[i])]

\* \d
IsDigit(c) == c \in DOMAIN DigitValueOf

\* \s
IsSpace(c) == c \in SpaceSet

\* \w
IsWordChar(c) == c \in WordCharSet

\* the character at position i, EOS outside the text
At(s, i) == IF i \in 1..Len(s) THEN s[i] ELSE EOS

\* the literal p occurs in s at position i
StartsWithAt(s, i, p) ==
    /\ i >= 1
    /\ i + Len(p) - 1 <= Len(s)
    /\ \A j \in 1..Len(p) : s[i + j - 1] = p[j]

\* the literal p occurs in s at position i, under re.IGNORECASE
StartsWithAtNoCase(s, i, p) ==
    /\ i >= 1
    /\ i + Len(p) - 1 <= Len(s)
    /\ \A j \in 1..Len(p) : LowerChar(s[i + j - 1]) = LowerChar(p[j])

\* \s* from position i: the position after the run of whitespace
RECURSIVE SkipSpaces(_, _)
SkipSpaces(s, i) == IF i <= Len(s) /\ IsSpace(s[i]) THEN SkipSpaces(s, i + 1) ELSE i

\* \d* from position i: the position after the run of digits
RECURSIVE SkipDigits(_, _)
SkipDigits(s, i) == IF i <= Len(s) /\ IsDigit(s[i]) THEN SkipDigits(s, i + 1) ELSE i

\* str.strip()
Strip(s) ==
    IF \A i \in DOMAIN s : IsSpace(s[i]) THEN << >>
    ELSE LET a == CHOOSE i \in DOMAIN s :
                      ~IsSpace(s[i]) /\ \A k \in 1..(i - 1) : IsSpace(s[k])
             b == CHOOSE i \in DOMAIN s :
                      ~IsSpace(s[i]) /\ \A k \in (i + 1)..Len(s) : IsSpace(s[k])
         IN  SubSeq(s, a, b)

\* "c in s"
Contains(s, c) == \E i \in DOMAIN s : s[i] = c

RECURSIVE Pow10(_)
Pow10(n) == IF n = 0 THEN 1 ELSE 10 * Pow10(n - 1)

\* the number written by the digits of s[i..j-1], separators (",") skipped:
\* int(group.replace(',', ''))
RECURSIVE DigitsValue(_, _, _, _)
DigitsValue(s, i, j, acc) ==
    IF i >= j THEN acc
    ELSE IF IsDigit(s[i]) THEN DigitsValue(s, i + 1, j, 10 * acc + DigitValueOf[s[i]])
    ELSE DigitsValue(s, i + 1, j, acc)

Thousand == 1000
Million == 1000000

RECURSIVE Pow5(_)
Pow5(n) == IF n = 0 THEN 1 ELSE 5 * Pow5(n - 1)

\* float("n / 10^e") is exact when the decimal is a binary fraction
IsBinaryFraction(n, e) == n % Pow5(e) = 0

\* int(float(text) * mult) for the decimals n / 10^e of the model's texts that
\* are no binary fractions: the IEEE-754 double nearest to the decimal, times
\* mult, rounded to a double and truncated by int()
InexactProducts ==
    <<
       [n |-> 41, e |-> 1, mult |-> Thousand, value |-> 4100],  \* int(float("4.1") * 1000)
       [n |-> 41, e |-> 1, mult |-> Million, value |-> 4099999],\* int(float("4.1") * 1000000)
       [n |-> 82, e |-> 1, mult |-> Thousand, value |-> 8200],  \* int(float("8.2") * 1000)
       [n |-> 82, e |-> 1, mult |-> Million, value |-> 8199999],\* int(float("8.2") * 1000000)
       [n |-> 201, e |-> 2, mult |-> Thousand, value |-> 2009], \* int(float("2.01") * 1000)
       [n |-> 201, e |-> 2, mult |-> Million, value |-> 2009999],\* int(float("2.01") * 1000000)
       [n |-> 11, e |-> 1, mult |-> Thousand, value |-> 1100],  \* int(float("1.1") * 1000)
       [n |-> 11, e |-> 1, mult |-> Million, value |-> 1100000],\* int(float("1.1") * 1000000)
       [n |-> 3, e |-> 1, mult |-> Thousand, value |-> 300],    \* int(float("0.3") * 1000)
       [n |-> 3, e |-> 1, mult |-> Million, value |-> 300000]   \* int(float("0.3") * 1000000)
    >>

\* int(float(text) * mult) for the text that writes the decimal n / 10^e:
\* exact for a binary fraction, the table's value for the other decimals
RECURSIVE FloatTimes(_, _, _)
FloatTimes(n, e, mult) ==
    IF e > 0 /\ n % 10 = 0 THEN FloatTimes(n \div 10, e - 1, mult)
    ELSE IF IsBinaryFraction(n, e) THEN (n * mult) \div Pow10(e)
    ELSE InexactProducts[CHOOSE k \in DOMAIN InexactProducts :
                             /\ InexactProducts[k].n = n
                             /\ InexactProducts[k].e = e
                             /\ InexactProducts[k].mult = mult].value

\* ScaledValue with the fraction dropped before the multiplication:
\* int(float(group)) * mult
ScaledValueWholePart(s, b, c, d, mult) == DigitsValue(s, b, c, 0) * mult

\* int(float("<ip>.<fp>") * mult) for the decimal whose integer part is written
\* s[b..c-1] and whose fraction is written s[c+1..d-1] (d = c: no fraction)
ScaledValue(s, b, c, d, mult) ==
    IF d = c THEN DigitsValue(s, b, c, 0) * mult
    ELSE FloatTimes(DigitsValue(s, b, c, 0) * Pow10(d - c - 1) + DigitsValue(s, c + 1, d, 0),
                    d - c - 1, mult)

None == "None"

\* a text that is None (no text has a character of more than one letter)
NoneText == << "None" >>

\* amount = None: no amount found (amounts are never negative)
NoAmount == -1

(***************************************************************************)
(* The texts the model draws: user inputs and model outputs.               *)
(***************************************************************************)
M_Question == <<"G","r","e","a","t",","," ","h","o","w"," ","m","u","c","h","?">>  \* 'Great, how much?'
M_TagHome == <<"S","u","r","e","!"," ","[","I","N","T","E","N","T",":","b","u","y","_","h","o","m","e","|","p","r","o","p","e","r","t","y","_","p","r","i","c","e",":","2","5","0","k","|","p","u","r","c","h","a","s","e","_","d","a","t","e",":","2","0","2","7","-","0","6","-","0","1","]">>  \* 'Sure! [INTENT:buy_home|property_price:250k|purchase_date:2027-06-01]'

\* the texts of the first session
UserInputs ==
    {
      <<"I","'","m"," ","p","l","a","n","n","i","n","g"," ","a"," ","w","e","d","d","i","n","g">>,  \* "I'm planning a wedding"
      <<"3","0","0","k">>,  \* '300k'
      <<"a"," ","h","o","u","s","e"," ","f","o","r"," ",Pound,"2","5","0",",","0","0","0">>,  \* 'a house for £250,000'
      <<"n","e","e","d"," ","0"," ","f","o","r"," ","t","h","e"," ","w","e","d","d","i","n","g">>,  \* 'need 0 for the wedding'
      <<"t","h","a","n","k","s">> }  \* 'thanks'
ModelOutputs ==
    {
      M_Question,
      <<"G","o","t"," ","i","t",".">>,  \* 'Got it.'
      M_TagHome,
      <<"[","I","N","T","E","N","T",":","m","a","r","r","i","a","g","e","|","a","m","o","u","n","t",":","2","0","k","]">>,  \* '[INTENT:marriage|amount:20k]'
      <<"I","s"," ","t","h","a","t"," ","r","i","g","h","t","?"," ","[","I","N","T","E","N","T",":","m","e","d","i","c","a","l","_","e","m","e","r","g","e","n","c","y","|","c","o","s","t",":","3","0","0","0","]">>,  \* 'Is that right? [INTENT:medical_emergency|cost:3000]'
      <<"D","o","n","e"," ","[","I","N","T","E","N","T",":","b","u","y","_","h","o","m","e","|","p","r","i","c","e",":","i","n","f","k","]">>,  \* 'Done [INTENT:buy_home|price:infk]'
      << >>,  \* ''
      <<"[","I","N","T","E","N","T",":","b","u","y","_","h","o","m","e","]">> }  \* '[INTENT:buy_home]'

\* the texts of the second session
OtherUserInputs ==
    {
      <<"m","y"," ","d","i","v","o","r","c","e">>,  \* 'my divorce'
      <<Pound,"2","0","0","0">> }  \* '£2000'
OtherModelOutputs ==
    {
      <<"N","o","t","e","d",".">>,  \* 'Noted.'
      <<"O","k"," ","[","I","N","T","[","I","N","T","E","N","T",":","x","]","E","N","T",":","d","i","v","o","r","c","e","]">> }  \* 'Ok [INT[INTENT:x]ENT:divorce]'

(***************************************************************************)
(* RULE 2: the four amount patterns (agent_service.py 253-272).            *)
(* Each XxxAt(s, i) is the value of group(1) of a match that starts at     *)
(* position i, or NoAmount; re.search takes the leftmost start.                *)
(***************************************************************************)

\* £?\s*(\d+(?:\.\d+)?)\s*<suffix>   under re.I, matched at position i
SuffixedNumberAt(s, i, suffix, mult) ==
    LET a == IF At(s, i) = Pound THEN i + 1 ELSE i
        b == SkipSpaces(s, a)
        c == SkipDigits(s, b)
        hasFrac == At(s, c) = "." /\ IsDigit(At(s, c + 1))
        d == IF hasFrac THEN SkipDigits(s, c + 1) ELSE c
        e == SkipSpaces(s, d)
    IN  IF c > b /\ LowerChar(At(s, e)) = suffix
        THEN ScaledValue(s, b, c, d, mult)
        ELSE NoAmount

\* the end of (?:,\d{3})* from position c
RECURSIVE GroupsEnd(_, _)
GroupsEnd(s, c) ==
    IF At(s, c) = "," /\ IsDigit(At(s, c + 1)) /\ IsDigit(At(s, c + 2)) /\ IsDigit(At(s, c + 3))
    THEN GroupsEnd(s, c + 4)
    ELSE c

\* £\s*(\d{1,3}(?:,\d{3})+)   matched at position i
CommaPoundsAt(s, i) ==
    LET b == SkipSpaces(s, i + 1)
        c == SkipDigits(s, b)
        g == GroupsEnd(s, c)
    IN  IF s[i] = Pound /\ c > b /\ c - b <= 3 /\ g > c
        THEN DigitsValue(s, b, g, 0)
        ELSE NoAmount

ContextKeywords == << <<"a","m","o","u","n","t">>, <<"t","a","r","g","e","t">>,
                      <<"s","a","v","e">>, <<"n","e","e","d">> >>

\* (?:amount|target|save|need)\s+(?:of\s+)?£?\s*(\d+(?:,\d{3})*)  at position i
ContextNumberAt(s, i) ==
    IF s[i] \in {"a", "t", "s", "n"}
       /\ \E n \in DOMAIN ContextKeywords : StartsWithAt(s, i, ContextKeywords[n])
    THEN LET kw == ContextKeywords[CHOOSE n \in DOMAIN ContextKeywords :
                                      StartsWithAt(s, i, ContextKeywords[n])]
             a == i + Len(kw)
             b == SkipSpaces(s, a)
             hasOf == StartsWithAt(s, b, <<"o","f">>) /\ IsSpace(At(s, b + 2))
             c == IF hasOf THEN SkipSpaces(s, b + 2) ELSE b
             d == IF At(s, c) = Pound THEN c + 1 ELSE c
             e == SkipSpaces(s, d)
             f == SkipDigits(s, e)
             g == GroupsEnd(s, f)
         IN  IF b > a /\ f > e THEN DigitsValue(s, e, g, 0) ELSE NoAmount
    ELSE NoAmount

\* re.search with a pattern whose match at position i has the value at(s, i):
\* the value at the leftmost position that matches, from position i on
RECURSIVE SuffixedNumberFrom(_, _, _, _)
SuffixedNumberFrom(s, i, suffix, mult) ==
    IF i > Len(s) THEN NoAmount
    ELSE LET v == SuffixedNumberAt(s, i, suffix, mult)
         IN  IF v # NoAmount THEN v ELSE SuffixedNumberFrom(s, i + 1, suffix, mult)

RECURSIVE CommaPoundsFrom(_, _)
CommaPoundsFrom(s, i) ==
    IF i > Len(s) THEN NoAmount
    ELSE LET v == CommaPoundsAt(s, i)
         IN  IF v # NoAmount THEN v ELSE CommaPoundsFrom(s, i + 1)

RECURSIVE ContextNumberFrom(_, _)
ContextNumberFrom(s, i) ==
    IF i > Len(s) THEN NoAmount
    ELSE LET v == ContextNumberAt(s, i)
         IN  IF v # NoAmount THEN v ELSE ContextNumberFrom(s, i + 1)

\* re.search(r'£?\s*(\d+(?:\.\d+)?)\s*m(?:illion)?', s, re.I): int(float(group(1)) * 1000000)
SearchMillions(s) == SuffixedNumberFrom(s, 1, "m", Million)

\* re.search(r'£?\s*(\d+(?:\.\d+)?)\s*k', s, re.I): int(float(group(1)) * 1000)
SearchThousands(s) == SuffixedNumberFrom(s, 1, "k", Thousand)

\* re.search(r'£\s*(\d{1,3}(?:,\d{3})+)', s): int(group(1).replace(',', ''))
SearchCommaPounds(s) == CommaPoundsFrom(s, 1)

\* re.search(r'(?:amount|target|save|need)\s+(?:of\s+)?£?\s*(\d+(?:,\d{3})*)', s)
SearchContextNumber(s) == ContextNumberFrom(s, 1)

\* AmountInMessage with pattern 4 tried before patterns 1 to 3
AmountInMessageKeywordFirst(s) ==
    IF SearchContextNumber(s) # NoAmount THEN SearchContextNumber(s)
    ELSE IF SearchMillions(s) # NoAmount THEN SearchMillions(s)
    ELSE IF SearchThousands(s) # NoAmount THEN SearchThousands(s)
    ELSE SearchCommaPounds(s)

\* the if / elif chain on one user message: the first pattern that matches
AmountInMessage(s) ==
    IF SearchMillions(s) # NoAmount THEN SearchMillions(s)
    ELSE IF SearchThousands(s) # NoAmount THEN SearchThousands(s)
    ELSE IF SearchCommaPounds(s) # NoAmount THEN SearchCommaPounds(s)
    ELSE SearchContextNumber(s)

\* AmountInMessage on the user texts of the sessions, evaluated once
KnownAmount == [m \in { Lower(u) : u \in UserInputs \cup OtherUserInputs } |-> AmountInMessage(m)]
AmountOf(s) == IF s \in DOMAIN KnownAmount THEN KnownAmount[s] ELSE AmountInMessage(s)

\* for user_msg in reversed(user_messages): ... break
RECURSIVE ScanNewestFirst(_, _)
ScanNewestFirst(user_messages, n) ==
    IF n = 0 THEN NoAmount
    ELSE IF AmountOf(user_messages[n]) # NoAmount THEN AmountOf(user_messages[n])
    ELSE ScanNewestFirst(user_messages, n - 1)

\* RULE 2: amount = NoAmount; if user_messages: scan, most recent first
ExtractAmount(user_messages) == ScanNewestFirst(user_messages, Len(user_messages))

(***************************************************************************)
(* Scenario matcher (pattern_matcher.py).                                  *)
(***************************************************************************)

\* scenario_map, in its iteration order (the order of scenario_patterns.json):
\* a sample of the library, with single-word and multi-word triggers, a
\* trigger contained in another one, and a scenario without triggers
PatternLibrary ==
    << 
       [id |-> <<"b","u","y","_","h","o","m","e">>,
        keywords |-> << <<"h","o","u","s","e">>,
                      <<"b","u","y"," ","a"," ","h","o","u","s","e">>,
                      <<"m","o","r","t","g","a","g","e">> >>],
       [id |-> <<"m","a","r","r","i","a","g","e">>,
        keywords |-> << <<"w","e","d","d","i","n","g">>,
                      <<"g","e","t","t","i","n","g"," ","m","a","r","r","i","e","d">> >>],
       [id |-> <<"d","i","v","o","r","c","e">>,
        keywords |-> << <<"d","i","v","o","r","c","e">> >>],
       [id |-> <<"c","u","s","t","o","m","_","g","o","a","l">>,
        keywords |-> <<  >>]
    >>

\* \b at position p of text (between text[p-1] and text[p])
WordBoundary(text, p) == IsWordChar(At(text, p - 1)) # IsWordChar(At(text, p))

\* KeywordFound without the two \b: re.search(re.escape(keyword), text, re.IGNORECASE)
KeywordFoundAnywhere(text, keyword) ==
    \E i \in 1..(Len(text) - Len(keyword) + 1) : StartsWithAtNoCase(text, i, keyword)

\* re.search(r'\b' + re.escape(keyword) + r'\b', text, re.IGNORECASE)
KeywordFound(text, keyword) ==
    \E i \in 1..(Len(text) - Len(keyword) + 1) :
        /\ LowerChar(text[i]) = LowerChar(keyword[1])
        /\ StartsWithAtNoCase(text, i, keyword)
        /\ WordBoundary(text, i)
        /\ WordBoundary(text, i + Len(keyword))

\* len(keyword.split()): the number of maximal runs of non-whitespace
SplitCount(keyword) ==
    Cardinality({i \in DOMAIN keyword : ~IsSpace(keyword[i]) /\ (i = 1 \/ IsSpace(keyword[i - 1]))})

BaseScore == 50
PhraseBonus == 30
MultiBonus == 20
ScoreCap == 100
MinConfidence == 45
HistoryWindow == 3

Min(a, b) == IF a <= b THEN a ELSE b

\* _calculate_match_score; scores are in hundredths (0.5 is 50)
CalculateMatchScore(text, keywords) ==
    LET matched_keywords == SelectSeq(keywords, LAMBDA k : KeywordFound(text, k))
        phrase == IF \E n \in DOMAIN matched_keywords : SplitCount(matched_keywords[n]) >= 2
                  THEN PhraseBonus ELSE 0
        multi == IF Len(matched_keywords) >= 2 THEN MultiBonus ELSE 0
    IN  IF keywords = << >> THEN 0
        ELSE IF matched_keywords = << >> THEN 0
        ELSE Min(BaseScore + phrase + multi, ScoreCap)

\* ' '.join(texts)
RECURSIVE JoinSpace(_)
JoinSpace(texts) ==
    IF texts = << >> THEN << >>
    ELSE IF Len(texts) = 1 THEN texts[1]
    ELSE texts[1] \o <<" ">> \o JoinSpace(Tail(texts))

\* seq[-n:]
LastN(seq, n) == IF Len(seq) <= n THEN seq ELSE SubSeq(seq, Len(seq) - n + 1, Len(seq))

\* search_text of match_scenario
SearchText(text, conversation_history) ==
    IF conversation_history = << >> THEN Lower(text)
    ELSE JoinSpace(LastN(conversation_history, HistoryWindow) \o << Lower(text) >>)

NoMatch == [id |-> NoneText, score |-> 0]

\* BetterScore with ">=" for ">": a later scenario replaces an equal one
BetterOrEqualScore(score, best_score) == score >= best_score

\* "if score > best_score" on one scenario of the loop
BetterScore(score, best_score) == score > best_score

\* the loop over scenario_map.items(): [id, score] of the best so far
RECURSIVE BestMatch(_, _, _, _)
BestMatch(library, n, search_text, best) ==
    IF n > Len(library) THEN best
    ELSE LET score == CalculateMatchScore(search_text, library[n].keywords)
         IN  BestMatch(library, n + 1, search_text,
                       IF BetterScore(score, best.score)
                       THEN [id |-> library[n].id, score |-> score]
                       ELSE best)

\* "if best_score >= 0.45"
Accepted(best_score) == best_score >= MinConfidence

\* match_scenario: [id, score], or NoMatch for a return of None
MatchScenario(library, text, conversation_history) ==
    LET best == BestMatch(library, 1, SearchText(text, conversation_history), NoMatch)
    IN  IF Accepted(best.score) THEN best ELSE NoMatch

(***************************************************************************)
(* RULE 3: the tag parser (agent_service.py 279-309).                      *)
(***************************************************************************)

TagOpen == <<"[","I","N","T","E","N","T",":">>

\* the position of the first "]" at or after position i, Len(s) + 1 if none
CloseAfter(s, i) ==
    CHOOSE j \in i..(Len(s) + 1) :
        /\ \A k \in i..(j - 1) : s[k] # "]"
        /\ At(s, j) \in {"]", EOS}

\* \[INTENT:([^\]]+)\] matches at position i
TagAt(s, i) ==
    /\ StartsWithAt(s, i, TagOpen)
    /\ CloseAfter(s, i + Len(TagOpen)) <= Len(s)
    /\ CloseAfter(s, i + Len(TagOpen)) > i + Len(TagOpen)

\* re.search(r'\[INTENT:([^\]]+)\]', s) finds a match
HasTag(s) == \E i \in DOMAIN s : TagAt(s, i)

\* the start of the first tag
TagStart(s) == CHOOSE i \in DOMAIN s : TagAt(s, i) /\ \A k \in 1..(i - 1) : ~TagAt(s, k)

\* intent_match.group(1)
TagData(s) == SubSeq(s, TagStart(s) + Len(TagOpen), CloseAfter(s, TagStart(s) + Len(TagOpen)) - 1)

\* s.split(sep)
RECURSIVE Split(_, _)
Split(s, sep) ==
    IF ~Contains(s, sep) THEN << s >>
    ELSE LET i == CHOOSE j \in DOMAIN s : s[j] = sep /\ \A k \in 1..(j - 1) : s[k] # sep
         IN  << SubSeq(s, 1, i - 1) >> \o Split(SubSeq(s, i + 1, Len(s)), sep)

\* part.split(':', 1)[0].strip() and [1].strip(), for a part that contains ':'
FirstColon(part) == CHOOSE j \in DOMAIN part : part[j] = ":" /\ \A k \in 1..(j - 1) : part[k] # ":"
PartKey(part) == Strip(SubSeq(part, 1, FirstColon(part) - 1))
PartValue(part) == Strip(SubSeq(part, FirstColon(part) + 1, Len(part)))

\* typed parameter values: a Python int, float or str
IntVal(n) == [t |-> "int", n |-> n, e |-> 0, s |-> << >>]
StrVal(s) == [t |-> "str", n |-> 0, e |-> 0, s |-> s]
\* the float n / 10^e, in lowest decimal form
RECURSIVE FloatVal(_, _)
FloatVal(n, e) ==
    IF e > 0 /\ n % 10 = 0 THEN FloatVal(n \div 10, e - 1)
    ELSE [t |-> "float", n |-> n, e |-> e, s |-> << >>]
\* the coercion left the try block with an exception that is no ValueError
Raised(name) == [t |-> "raised", n |-> 0, e |-> 0, s |-> name]
OverflowError == << "OverflowError" >>

\* float(s) for the texts the model draws: optional sign, digits with an
\* optional point, or inf / infinity / nan; ValueError for any other text
\* (the model draws no exponent notation and no underscores).
\* [kind: "num" | "inf" | "nan" | "ValueError", neg, n, e]: the number (-1)^neg * n / 10^e
ParseFloat(text) ==
    LET s == Strip(text)
        neg == At(s, 1) = "-"
        p == IF At(s, 1) \in {"-", "+"} THEN 2 ELSE 1
        a == SkipDigits(s, p)
        point == At(s, a) = "."
        b == IF point THEN SkipDigits(s, a + 1) ELSE a
        fracLen == IF point THEN b - a - 1 ELSE 0
        word == Lower(SubSeq(s, p, Len(s)))
    IN  IF word \in {<<"i","n","f">>, <<"i","n","f","i","n","i","t","y">>}
        THEN [kind |-> "inf", neg |-> neg, n |-> 0, e |-> 0]
        ELSE IF word = <<"n","a","n">>
        THEN [kind |-> "nan", neg |-> neg, n |-> 0, e |-> 0]
        ELSE IF b = Len(s) + 1 /\ (a - p) + fracLen >= 1
        THEN [kind |-> "num", neg |-> neg,
              n |-> DigitsValue(s, p, a, 0) * Pow10(fracLen)
                    + (IF point THEN DigitsValue(s, a + 1, b, 0) ELSE 0),
              e |-> fracLen]
        ELSE [kind |-> "ValueError", neg |-> neg, n |-> 0, e |-> 0]

\* int(s): optional sign and digits; ValueError (None) for any other text
IntParses(text) ==
    LET s == Strip(text)
        p == IF At(s, 1) \in {"-", "+"} THEN 2 ELSE 1
    IN  SkipDigits(s, p) = Len(s) + 1 /\ Len(s) >= p

IntOf(text) ==
    LET s == Strip(text)
        p == IF At(s, 1) \in {"-", "+"} THEN 2 ELSE 1
        m == DigitsValue(s, p, Len(s) + 1, 0)
    IN  IF At(s, 1) = "-" THEN 0 - m ELSE m

\* int(float(text) * mult) inside "try: ... except ValueError: raw string":
\* int() truncates towards zero, int(nan) is a ValueError, int(inf) an
\* OverflowError, which the except clause does not catch
ScaledInt(text, mult, value) ==
    LET f == ParseFloat(text)
    IN  IF f.kind = "ValueError" \/ f.kind = "nan" THEN StrVal(value)
        ELSE IF f.kind = "inf" THEN Raised(OverflowError)
        ELSE IntVal((IF f.neg THEN -1 ELSE 1) * FloatTimes(f.n, f.e, mult))

\* the coercion of one tag value (lines 292-306); value is already stripped
Coerce(value) ==
    LET val_str == Strip(Lower(value))
        f == ParseFloat(value)
    IN  IF Contains(value, "-") /\ Len(value) = 10 THEN StrVal(value)
        ELSE IF At(val_str, Len(val_str)) = "k"
        THEN ScaledInt(SubSeq(val_str, 1, Len(val_str) - 1), Thousand, value)
        ELSE IF At(val_str, Len(val_str)) = "m"
        THEN ScaledInt(SubSeq(val_str, 1, Len(val_str) - 1), Million, value)
        ELSE IF Contains(value, ".")
        THEN IF f.kind = "num" THEN FloatVal((IF f.neg THEN -1 ELSE 1) * f.n, f.e)
             ELSE StrVal(value)
        ELSE IF IntParses(value) THEN IntVal(IntOf(value))
        ELSE StrVal(value)

\* dictionaries: functions from keys (texts) to values
EmptyDict == << >>
DictSet(d, k, v) == [x \in (DOMAIN d) \cup {k} |-> IF x = k THEN v ELSE d[x]]
DictPop(d, k) == [x \in (DOMAIN d) \ {k} |-> d[x]]

\* "for part in parts[1:]: if ':' in part: ... intent_params[key] = <coerced>"
RECURSIVE ParseParts(_, _, _)
ParseParts(parts, n, intent_params) ==
    IF n > Len(parts) THEN intent_params
    ELSE IF Contains(parts[n], ":")
    THEN ParseParts(parts, n + 1,
                    DictSet(intent_params, PartKey(parts[n]), Coerce(PartValue(parts[n]))))
    ELSE ParseParts(parts, n + 1, intent_params)

\* parts[0]
TagScenario(s) == Split(TagData(s), "|")[1]

\* intent_params after the loop over parts[1:]
TagParams(s) == ParseParts(Split(TagData(s), "|"), 2, EmptyDict)

\* the loop over parts[1:] is left by an exception
TagRaises(s) == \E k \in DOMAIN TagParams(s) : TagParams(s)[k].t = "raised"

\* re.sub(r'\s*\[INTENT:[^\]]+\]', '', s): every tag with the whitespace before it
RECURSIVE RemoveTags(_, _)
RemoveTags(s, i) ==
    IF i > Len(s) THEN << >>
    ELSE IF TagAt(s, SkipSpaces(s, i))
    THEN RemoveTags(s, CloseAfter(s, SkipSpaces(s, i) + Len(TagOpen)) + 1)
    ELSE << s[i] >> \o RemoveTags(s, i + 1)

\* clean_message of a tagged output (line 308)
StripTag(s) == Strip(RemoveTags(s, 1))

(***************************************************************************)
(* Parameter normalization of the tag path (agent_service.py 311-377) and  *)
(* the mapping of the fallback path (agent_service.py 392-406).            *)
(***************************************************************************)

\* PARAM_MAPPINGS of the tag path (agent_service.py 313-351), in dict order.
\* single: the string mapping (NoneText for a dict mapping); pairs: the dict
\* mapping as (ai_key, target_key) in items() order
TagParamMappings ==
    <<
       \* 'childbirth': 'oneOffCosts'
       [scenario |-> <<"c","h","i","l","d","b","i","r","t","h">>,
        single |-> <<"o","n","e","O","f","f","C","o","s","t","s">>,
        pairs |-> << >>],
       \* 'buy_vehicle': 'totalCost'
       [scenario |-> <<"b","u","y","_","v","e","h","i","c","l","e">>,
        single |-> <<"t","o","t","a","l","C","o","s","t">>,
        pairs |-> << >>],
       \* 'custom_goal': {name: scenarioName, target_amount: targetAmount, monthly_amount: monthlyAmount, type: direction, frequency: frequency, date: targetDate}
       [scenario |-> <<"c","u","s","t","o","m","_","g","o","a","l">>,
        single |-> NoneText,
        pairs |-> << << <<"n","a","m","e">>, <<"s","c","e","n","a","r","i","o","N","a","m","e">> >>,
                  << <<"t","a","r","g","e","t","_","a","m","o","u","n","t">>, <<"t","a","r","g","e","t","A","m","o","u","n","t">> >>,
                  << <<"m","o","n","t","h","l","y","_","a","m","o","u","n","t">>, <<"m","o","n","t","h","l","y","A","m","o","u","n","t">> >>,
                  << <<"t","y","p","e">>, <<"d","i","r","e","c","t","i","o","n">> >>,
                  << <<"f","r","e","q","u","e","n","c","y">>, <<"f","r","e","q","u","e","n","c","y">> >>,
                  << <<"d","a","t","e">>, <<"t","a","r","g","e","t","D","a","t","e">> >> >>],
       \* 'buy_home': {property_price: propertyPrice, deposit_amount: depositAmount, purchase_date: purchaseDate, targetAmount: propertyPrice, amount: propertyPrice, price: propertyPrice, cost: propertyPrice, date: purchaseDate}
       [scenario |-> <<"b","u","y","_","h","o","m","e">>,
        single |-> NoneText,
        pairs |-> << << <<"p","r","o","p","e","r","t","y","_","p","r","i","c","e">>, <<"p","r","o","p","e","r","t","y","P","r","i","c","e">> >>,
                  << <<"d","e","p","o","s","i","t","_","a","m","o","u","n","t">>, <<"d","e","p","o","s","i","t","A","m","o","u","n","t">> >>,
                  << <<"p","u","r","c","h","a","s","e","_","d","a","t","e">>, <<"p","u","r","c","h","a","s","e","D","a","t","e">> >>,
                  << <<"t","a","r","g","e","t","A","m","o","u","n","t">>, <<"p","r","o","p","e","r","t","y","P","r","i","c","e">> >>,
                  << <<"a","m","o","u","n","t">>, <<"p","r","o","p","e","r","t","y","P","r","i","c","e">> >>,
                  << <<"p","r","i","c","e">>, <<"p","r","o","p","e","r","t","y","P","r","i","c","e">> >>,
                  << <<"c","o","s","t">>, <<"p","r","o","p","e","r","t","y","P","r","i","c","e">> >>,
                  << <<"d","a","t","e">>, <<"p","u","r","c","h","a","s","e","D","a","t","e">> >> >>],
       \* 'marriage': {totalBudget: totalBudget, targetAmount: totalBudget, amount: totalBudget, cost: totalBudget, budget: totalBudget, value: totalBudget, date: weddingDate, weddingDate: weddingDate}
       [scenario |-> <<"m","a","r","r","i","a","g","e">>,
        single |-> NoneText,
        pairs |-> << << <<"t","o","t","a","l","B","u","d","g","e","t">>, <<"t","o","t","a","l","B","u","d","g","e","t">> >>,
                  << <<"t","a","r","g","e","t","A","m","o","u","n","t">>, <<"t","o","t","a","l","B","u","d","g","e","t">> >>,
                  << <<"a","m","o","u","n","t">>, <<"t","o","t","a","l","B","u","d","g","e","t">> >>,
                  << <<"c","o","s","t">>, <<"t","o","t","a","l","B","u","d","g","e","t">> >>,
                  << <<"b","u","d","g","e","t">>, <<"t","o","t","a","l","B","u","d","g","e","t">> >>,
                  << <<"v","a","l","u","e">>, <<"t","o","t","a","l","B","u","d","g","e","t">> >>,
                  << <<"d","a","t","e">>, <<"w","e","d","d","i","n","g","D","a","t","e">> >>,
                  << <<"w","e","d","d","i","n","g","D","a","t","e">>, <<"w","e","d","d","i","n","g","D","a","t","e">> >> >>],
       \* 'medical_emergency': {totalCost: totalCost, targetAmount: totalCost, amount: totalCost, cost: totalCost}
       [scenario |-> <<"m","e","d","i","c","a","l","_","e","m","e","r","g","e","n","c","y">>,
        single |-> NoneText,
        pairs |-> << << <<"t","o","t","a","l","C","o","s","t">>, <<"t","o","t","a","l","C","o","s","t">> >>,
                  << <<"t","a","r","g","e","t","A","m","o","u","n","t">>, <<"t","o","t","a","l","C","o","s","t">> >>,
                  << <<"a","m","o","u","n","t">>, <<"t","o","t","a","l","C","o","s","t">> >>,
                  << <<"c","o","s","t">>, <<"t","o","t","a","l","C","o","s","t">> >> >>],
       \* 'tax_bill': {billAmount: billAmount, targetAmount: billAmount, amount: billAmount}
       [scenario |-> <<"t","a","x","_","b","i","l","l">>,
        single |-> NoneText,
        pairs |-> << << <<"b","i","l","l","A","m","o","u","n","t">>, <<"b","i","l","l","A","m","o","u","n","t">> >>,
                  << <<"t","a","r","g","e","t","A","m","o","u","n","t">>, <<"b","i","l","l","A","m","o","u","n","t">> >>,
                  << <<"a","m","o","u","n","t">>, <<"b","i","l","l","A","m","o","u","n","t">> >> >>],
       \* 'home_improvement': {totalCost: totalCost, targetAmount: totalCost, amount: totalCost, cost: totalCost}
       [scenario |-> <<"h","o","m","e","_","i","m","p","r","o","v","e","m","e","n","t">>,
        single |-> NoneText,
        pairs |-> << << <<"t","o","t","a","l","C","o","s","t">>, <<"t","o","t","a","l","C","o","s","t">> >>,
                  << <<"t","a","r","g","e","t","A","m","o","u","n","t">>, <<"t","o","t","a","l","C","o","s","t">> >>,
                  << <<"a","m","o","u","n","t">>, <<"t","o","t","a","l","C","o","s","t">> >>,
                  << <<"c","o","s","t">>, <<"t","o","t","a","l","C","o","s","t">> >> >>],
       \* 'ivf_treatment': {totalCost: totalCost, targetAmount: totalCost, amount: totalCost}
       [scenario |-> <<"i","v","f","_","t","r","e","a","t","m","e","n","t">>,
        single |-> NoneText,
        pairs |-> << << <<"t","o","t","a","l","C","o","s","t">>, <<"t","o","t","a","l","C","o","s","t">> >>,
                  << <<"t","a","r","g","e","t","A","m","o","u","n","t">>, <<"t","o","t","a","l","C","o","s","t">> >>,
                  << <<"a","m","o","u","n","t">>, <<"t","o","t","a","l","C","o","s","t">> >> >>],
       \* 'help_family': 'monthlyAmount'
       [scenario |-> <<"h","e","l","p","_","f","a","m","i","l","y">>,
        single |-> <<"m","o","n","t","h","l","y","A","m","o","u","n","t">>,
        pairs |-> << >>],
       \* 'elder_care': 'monthlyAmount'
       [scenario |-> <<"e","l","d","e","r","_","c","a","r","e">>,
        single |-> <<"m","o","n","t","h","l","y","A","m","o","u","n","t">>,
        pairs |-> << >>],
       \* 'divorce': 'settlementCost'
       [scenario |-> <<"d","i","v","o","r","c","e">>,
        single |-> <<"s","e","t","t","l","e","m","e","n","t","C","o","s","t">>,
        pairs |-> << >>],
       \* 'death_partner': 'monthlyIncomeLost'
       [scenario |-> <<"d","e","a","t","h","_","p","a","r","t","n","e","r">>,
        single |-> <<"m","o","n","t","h","l","y","I","n","c","o","m","e","L","o","s","t">>,
        pairs |-> << >>],
       \* 'work_equipment': 'totalCost'
       [scenario |-> <<"w","o","r","k","_","e","q","u","i","p","m","e","n","t">>,
        single |-> <<"t","o","t","a","l","C","o","s","t">>,
        pairs |-> << >>],
       \* 'debt_consolidation': 'lumpSumPayment'
       [scenario |-> <<"d","e","b","t","_","c","o","n","s","o","l","i","d","a","t","i","o","n">>,
        single |-> <<"l","u","m","p","S","u","m","P","a","y","m","e","n","t">>,
        pairs |-> << >>],
       \* 'sell_asset': 'saleProceeds'
       [scenario |-> <<"s","e","l","l","_","a","s","s","e","t">>,
        single |-> <<"s","a","l","e","P","r","o","c","e","e","d","s">>,
        pairs |-> << >>],
       \* 'windfall': 'lumpSumAmount'
       [scenario |-> <<"w","i","n","d","f","a","l","l">>,
        single |-> <<"l","u","m","p","S","u","m","A","m","o","u","n","t">>,
        pairs |-> << >>],
       \* 'start_business': 'investmentAmount'
       [scenario |-> <<"s","t","a","r","t","_","b","u","s","i","n","e","s","s">>,
        single |-> <<"i","n","v","e","s","t","m","e","n","t","A","m","o","u","n","t">>,
        pairs |-> << >>],
       \* 'property_repair': 'repairCost'
       [scenario |-> <<"p","r","o","p","e","r","t","y","_","r","e","p","a","i","r">>,
        single |-> <<"r","e","p","a","i","r","C","o","s","t">>,
        pairs |-> << >>]
    >>

\* GENERIC_KEYS (agent_service.py 366)
GENERIC_KEYS ==
    << <<"a","m","o","u","n","t">>,
       <<"c","o","s","t">>,
       <<"v","a","l","u","e">>,
       <<"p","r","i","c","e">>,
       <<"t","o","t","a","l">>,
       <<"s","e","t","t","l","e","m","e","n","t","_","a","m","o","u","n","t">>,
       <<"t","o","t","a","l","_","s","e","t","t","l","e","m","e","n","t","_","c","o","s","t">>,
       <<"m","o","n","t","h","l","y","_","i","n","c","o","m","e","_","l","o","s","t">>,
       <<"l","o","s","t","_","i","n","c","o","m","e">> >>

\* PARAM_MAPPINGS of the fallback path (agent_service.py 395-404)
FallbackParamMappings ==
    <<
       \* 'childbirth': 'oneOffCosts'
       [scenario |-> <<"c","h","i","l","d","b","i","r","t","h">>,
        single |-> <<"o","n","e","O","f","f","C","o","s","t","s">>],
       \* 'buy_vehicle': 'totalCost'
       [scenario |-> <<"b","u","y","_","v","e","h","i","c","l","e">>,
        single |-> <<"t","o","t","a","l","C","o","s","t">>],
       \* 'buy_home': 'propertyPrice'
       [scenario |-> <<"b","u","y","_","h","o","m","e">>,
        single |-> <<"p","r","o","p","e","r","t","y","P","r","i","c","e">>],
       \* 'marriage': 'totalBudget'
       [scenario |-> <<"m","a","r","r","i","a","g","e">>,
        single |-> <<"t","o","t","a","l","B","u","d","g","e","t">>],
       \* 'medical_emergency': 'totalCost'
       [scenario |-> <<"m","e","d","i","c","a","l","_","e","m","e","r","g","e","n","c","y">>,
        single |-> <<"t","o","t","a","l","C","o","s","t">>],
       \* 'tax_bill': 'billAmount'
       [scenario |-> <<"t","a","x","_","b","i","l","l">>,
        single |-> <<"b","i","l","l","A","m","o","u","n","t">>],
       \* 'home_improvement': 'totalCost'
       [scenario |-> <<"h","o","m","e","_","i","m","p","r","o","v","e","m","e","n","t">>,
        single |-> <<"t","o","t","a","l","C","o","s","t">>],
       \* 'work_equipment': 'totalCost'
       [scenario |-> <<"w","o","r","k","_","e","q","u","i","p","m","e","n","t">>,
        single |-> <<"t","o","t","a","l","C","o","s","t">>]
    >>

TargetAmountKey == <<"t","a","r","g","e","t","A","m","o","u","n","t">>

\* "intent_scenario in PARAM_MAPPINGS" and PARAM_MAPPINGS[intent_scenario]
HasMapping(mappings, scenario) == \E n \in DOMAIN mappings : mappings[n].scenario = scenario
MappingOf(mappings, scenario) ==
    mappings[CHOOSE n \in DOMAIN mappings : mappings[n].scenario = scenario]

\* 1. the direct multi-key mapping: for ai_key, target_key in mapping.items()
RECURSIVE ApplyPairs(_, _, _)
ApplyPairs(pairs, n, params) ==
    IF n > Len(pairs) THEN params
    ELSE IF pairs[n][1] \in DOMAIN params
    THEN ApplyPairs(pairs, n + 1,
                    DictSet(DictPop(params, pairs[n][1]), pairs[n][2], params[pairs[n][1]]))
    ELSE ApplyPairs(pairs, n + 1, params)

\* SpecificMapping without step 1: the raw keys are left to the generic step
SpecificMappingSkipped(scenario, params) == params

SpecificMapping(scenario, params) ==
    IF HasMapping(TagParamMappings, scenario)
       /\ MappingOf(TagParamMappings, scenario).single = NoneText
    THEN ApplyPairs(MappingOf(TagParamMappings, scenario).pairs, 1, params)
    ELSE params

\* 2. generic normalization: the first generic key becomes targetAmount
GenericNormalization(params) ==
    IF TargetAmountKey \notin DOMAIN params
       /\ \E n \in DOMAIN GENERIC_KEYS : GENERIC_KEYS[n] \in DOMAIN params
    THEN LET found_generic_key ==
                 GENERIC_KEYS[CHOOSE n \in DOMAIN GENERIC_KEYS :
                                  /\ GENERIC_KEYS[n] \in DOMAIN params
                                  /\ \A m \in 1..(n - 1) : GENERIC_KEYS[m] \notin DOMAIN params]
         IN  DictSet(DictPop(params, found_generic_key), TargetAmountKey,
                     params[found_generic_key])
    ELSE params

\* SingleMapping without step 3: targetAmount keeps its name
SingleMappingSkipped(scenario, params) == params

\* 3. the single mapping: targetAmount becomes the scenario's slot
SingleMapping(scenario, params) ==
    IF /\ HasMapping(TagParamMappings, scenario)
       /\ MappingOf(TagParamMappings, scenario).single # NoneText
       /\ TargetAmountKey \in DOMAIN params
    THEN DictSet(DictPop(params, TargetAmountKey),
                 MappingOf(TagParamMappings, scenario).single, params[TargetAmountKey])
    ELSE params

\* the three steps, in the order of the code
Normalize(scenario, params) ==
    SingleMapping(scenario, GenericNormalization(SpecificMapping(scenario, params)))

\* intent_params of the fallback (lines 392-406)
FallbackParams(goal_type, amount) ==
    IF HasMapping(FallbackParamMappings, goal_type)
    THEN DictSet(EmptyDict, MappingOf(FallbackParamMappings, goal_type).single, IntVal(amount))
    ELSE DictSet(EmptyDict, TargetAmountKey, IntVal(amount))

\* RULE 3 on one model output: whether it has a tag, whether the coercion
\* raises, and intent_scenario, the normalized intent_params and clean_message
ParseOutput(assistant_message) ==
    IF ~HasTag(assistant_message)
    THEN [tagged |-> FALSE, raises |-> FALSE, scenario |-> NoneText,
          params |-> EmptyDict, clean |-> assistant_message]
    ELSE IF TagRaises(assistant_message)
    THEN [tagged |-> TRUE, raises |-> TRUE, scenario |-> TagScenario(assistant_message),
          params |-> EmptyDict, clean |-> assistant_message]
    ELSE [tagged |-> TRUE, raises |-> FALSE, scenario |-> TagScenario(assistant_message),
          params |-> Normalize(TagScenario(assistant_message), TagParams(assistant_message)),
          clean |-> StripTag(assistant_message)]

\* ParseOutput on the model outputs of the sessions, evaluated once
KnownParse == [m \in ModelOutputs \cup OtherModelOutputs |-> ParseOutput(m)]
ParsedOutput(m) == IF m \in DOMAIN KnownParse THEN KnownParse[m] ELSE ParseOutput(m)

(***************************************************************************)
(* The service: sessions, the turn handler and session deletion.           *)
(***************************************************************************)

VARIABLES
    agentSessions,   \* AIAgent.sessions: session id -> list of {role, content}
    sessions,        \* the module-level dict sessions (agent_service.py 31)
    sessionFile,     \* what json.dump last wrote to sessions.json
    matcher,         \* _matcher of pattern_matcher.py: None or the loaded library
    patternsFileOk,  \* scenario_patterns.json can be opened and parsed
    last,            \* the locals and the AgentResponse of the last turn
    nTurns,          \* turns processed so far
    call             \* a direct call of one of the pure functions

vars == << agentSessions, sessions, sessionFile, matcher, patternsFileOk, last, nTurns, call >>

\* the outcome of client.chat.completions.create when it raises
ModelCallFails == << "APIError" >>

MaxTurns == 2

SystemPrompt == << "SYSTEM_PROMPT" >>
ContextPrompt == << "CURRENT USER CONTEXT" >>
Acknowledgement == << "I've prepared that for you." >>

Message(role, content) == [role |-> role, content |-> content]

\* ScenarioAction(type="OPEN_CONFIG", scenarioId=..., params=...)
ScenarioAction(scenarioId, params) ==
    [type |-> "OPEN_CONFIG", scenarioId |-> scenarioId, params |-> params]

\* action = None
NoAction == [type |-> "None", scenarioId |-> NoneText, params |-> EmptyDict]

\* params = None
NoneDict == DictSet(EmptyDict, NoneText, StrVal(NoneText))

\* the except branch of processUserInput (lines 444-453)
ErrorResponse(name) ==
    [error |-> TRUE,
     message |-> << "I encountered an error: ", name >>,
     confidence |-> 0,
     intent |-> NoneText,
     params |-> NoneDict,
     action |-> NoAction]

\* user_messages (line 229)
RECURSIVE UserMessages(_)
UserMessages(log) ==
    IF log = << >> THEN << >>
    ELSE IF log[1].role = "user" THEN << Lower(log[1].content) >> \o UserMessages(Tail(log))
    ELSE UserMessages(Tail(log))

\* Python truth of an amount: "if amount"
Truthy(amount) == amount # NoAmount /\ amount # 0

\* FallbackFires without the test for "?" in the model output
FallbackFiresOnQuestion(action, goal_type, amount, assistant_message) ==
    /\ action = NoAction
    /\ goal_type # NoneText
    /\ Truthy(amount)

\* FallbackFires without the test "not action"
FallbackFiresDespiteTag(action, goal_type, amount, assistant_message) ==
    /\ goal_type # NoneText
    /\ Truthy(amount)
    /\ ~Contains(assistant_message, "?")

\* the guard of RULE 4 (line 390)
FallbackFires(action, goal_type, amount, assistant_message) ==
    /\ action = NoAction
    /\ goal_type # NoneText
    /\ Truthy(amount)
    /\ ~Contains(assistant_message, "?")

\* Confidence without the test of intent_params
ConfidenceOfIntentAlone(intent_scenario, intent_params) ==
    IF intent_scenario # NoneText /\ intent_scenario # << >> THEN 9 ELSE 0

\* confidence of the response, in tenths (line 436)
Confidence(intent_scenario, intent_params) ==
    IF intent_scenario # NoneText /\ intent_scenario # << >> /\ intent_params # EmptyDict
    THEN 9 ELSE 0

\* LogAtCall that starts every turn from a new log
LogAtCallFromNewLog(session_id, user_input, hasContext) ==
    << Message("system", SystemPrompt), Message("user", user_input) >>

\* the log of the session when the model is called (lines 124-190)
LogAtCall(session_id, user_input, hasContext) ==
    LET created == IF session_id \in DOMAIN agentSessions
                   THEN agentSessions[session_id]
                   ELSE << Message("system", SystemPrompt) >>
        withContext == IF hasContext
                       THEN Append(created, Message("system", ContextPrompt))
                       ELSE created
    IN  Append(withContext, Message("user", user_input))

SetSession(store, session_id, log) ==
    [x \in (DOMAIN store) \cup {session_id} |-> IF x = session_id THEN log ELSE store[x]]

\* the locals of a turn that ended in the except branch
FailedTurn(session_id, user_input, output, name) ==
    [kind |-> "turn", session_id |-> session_id, user_input |-> user_input,
     assistant_message |-> output, user_messages |-> << >>,
     goal_type |-> NoneText, score |-> 0, amount |-> NoAmount,
     emitted |-> << >>, response |-> ErrorResponse(name)]

NoTurn ==
    [kind |-> "none", session_id |-> "", user_input |-> << >>,
     assistant_message |-> << >>, user_messages |-> << >>,
     goal_type |-> NoneText, score |-> 0, amount |-> NoAmount,
     emitted |-> << >>, response |-> ErrorResponse(<< >>)]

\* Respond without the "elif action" branch of lines 423-429: an empty
\* clean_message stays empty
RespondWithoutAcknowledgement(session_id, user_input, assistant_message, user_messages, match_result, amount, tag) ==
    LET goal_type == match_result.id
        tagAction == IF tag.tagged THEN ScenarioAction(tag.scenario, tag.params) ELSE NoAction
        fallback == FallbackFires(tagAction, goal_type, amount, assistant_message)
        fallbackAction == ScenarioAction(goal_type, FallbackParams(goal_type, amount))
        action == IF fallback THEN fallbackAction ELSE tagAction
        intent_scenario == IF fallback THEN goal_type ELSE tag.scenario
        intent_params == IF fallback THEN fallbackAction.params ELSE tag.params
        clean_message == tag.clean
    IN  [kind |-> "turn", session_id |-> session_id, user_input |-> user_input,
         assistant_message |-> assistant_message, user_messages |-> user_messages,
         goal_type |-> goal_type, score |-> match_result.score, amount |-> amount,
         emitted |-> (IF tag.tagged THEN << tagAction >> ELSE << >>)
                     \o (IF fallback THEN << fallbackAction >> ELSE << >>),
         response |-> [error |-> FALSE,
                       message |-> clean_message,
                       confidence |-> Confidence(intent_scenario, intent_params),
                       intent |-> intent_scenario,
                       params |-> IF intent_params # EmptyDict THEN intent_params ELSE NoneDict,
                       action |-> action]]

\* lines 274-442 of a turn: the actions constructed and the response, from
\* the values of user_messages, match_result, amount and the parsed tag
Respond(session_id, user_input, assistant_message, user_messages, match_result, amount, tag) ==
    LET goal_type == match_result.id
        tagAction == IF tag.tagged THEN ScenarioAction(tag.scenario, tag.params) ELSE NoAction
        fallback == FallbackFires(tagAction, goal_type, amount, assistant_message)
        fallbackAction == ScenarioAction(goal_type, FallbackParams(goal_type, amount))
        action == IF fallback THEN fallbackAction ELSE tagAction
        intent_scenario == IF fallback THEN goal_type ELSE tag.scenario
        intent_params == IF fallback THEN fallbackAction.params ELSE tag.params
        clean_message == IF tag.clean = << >> /\ action # NoAction
                         THEN Acknowledgement ELSE tag.clean
    IN  [kind |-> "turn", session_id |-> session_id, user_input |-> user_input,
         assistant_message |-> assistant_message, user_messages |-> user_messages,
         goal_type |-> goal_type, score |-> match_result.score, amount |-> amount,
         emitted |-> (IF tag.tagged THEN << tagAction >> ELSE << >>)
                     \o (IF fallback THEN << fallbackAction >> ELSE << >>),
         response |-> [error |-> FALSE,
                       message |-> clean_message,
                       confidence |-> Confidence(intent_scenario, intent_params),
                       intent |-> intent_scenario,
                       params |-> IF intent_params # EmptyDict THEN intent_params ELSE NoneDict,
                       action |-> action]]

\* lines 229-272: user_messages, then the matcher and the amount extractor on it
MatchAndExtract(session_id, user_input, assistant_message, user_messages, tag) ==
    Respond(session_id, user_input, assistant_message, user_messages,
            MatchScenario(PatternLibrary, user_input, user_messages),
            ExtractAmount(user_messages), tag)

\* lines 212-442 of a turn whose model call returned assistant_message and
\* whose matcher is loaded: the locals and the response
DecideTurn(session_id, user_input, assistant_message, log, tag) ==
    MatchAndExtract(session_id, user_input, assistant_message, UserMessages(log), tag)

\* lines 192-453, with the log at the model call, the parse of the model
\* output and the turn it decides
CallModel(session_id, output, log, atCall, tag, failed, turn) ==
    /\ nTurns < MaxTurns
    /\ nTurns' = nTurns + 1
    /\ UNCHANGED << sessions, patternsFileOk, call >>
    /\ IF output = ModelCallFails
       THEN \* the call raises: nothing is saved, the user turn stays in the log
            /\ agentSessions' = atCall
            /\ last' = [failed EXCEPT !.assistant_message = NoneText,
                                      !.response = ErrorResponse(ModelCallFails)]
            /\ UNCHANGED << sessionFile, matcher >>
       ELSE /\ sessionFile' = atCall
            /\ IF matcher = None /\ ~patternsFileOk
               THEN \* get_matcher() raises in ScenarioPatternMatcher.__init__
                    /\ agentSessions' = atCall
                    /\ last' = [failed EXCEPT !.response = ErrorResponse(<< "FileNotFoundError" >>)]
                    /\ UNCHANGED matcher
               ELSE /\ matcher' = "loaded"
                    /\ IF tag.raises
                       THEN \* the coercion raises an exception that is no ValueError
                            /\ agentSessions' = atCall
                            /\ last' = [failed EXCEPT !.response = ErrorResponse(OverflowError)]
                       ELSE /\ last' = turn
                            /\ agentSessions' =
                                 IF turn.response.message # << >>
                                 THEN SetSession(agentSessions, session_id,
                                          Append(log, Message("assistant", turn.response.message)))
                                 ELSE atCall

WithLog(session_id, user_input, output, log, tag) ==
    CallModel(session_id, output, log, SetSession(agentSessions, session_id, log), tag,
              FailedTurn(session_id, user_input, output, << >>),
              DecideTurn(session_id, user_input, output, log, tag))

\* request.context: whether it has a non-empty profile, and the profile's
\* savings ("absent": no such key, "null": the JSON value null)
NoContext == [profile |-> FALSE, savings |-> "absent"]   \* {}
Contexts ==
    { NoContext,
      [profile |-> TRUE, savings |-> "absent"],   \* {"profile": {"name": "Test User"}}
      [profile |-> TRUE, savings |-> "null"] }    \* {"profile": {"name": "Test User", "savings": null}}

\* get_system_prompt raises (lines 125-133): it is called for a session that
\* is not in the store, and get_contextual_advice (prompts.py 93-121)
\* evaluates "savings < 3000", a TypeError for the value None
SystemPromptRaises(session_id, context) ==
    /\ session_id \notin DOMAIN agentSessions
    /\ context.profile
    /\ context.savings = "null"

\* the turn leaves the try block before the session is created
CreateSessionFails(session_id, user_input) ==
    /\ nTurns < MaxTurns
    /\ nTurns' = nTurns + 1
    /\ last' = FailedTurn(session_id, user_input, NoneText, << "TypeError" >>)
    /\ UNCHANGED << agentSessions, sessions, sessionFile, matcher, patternsFileOk, call >>

\* AIAgent.processUserInput, behind POST /api/chat
ProcessUserInput(session_id, user_input, context, output) ==
    IF SystemPromptRaises(session_id, context)
    THEN CreateSessionFails(session_id, user_input)
    ELSE WithLog(session_id, user_input, output,
                 LogAtCall(session_id, user_input, context.profile), ParsedOutput(output))

\* DELETE /api/sessions/{session_id} (lines 590-596): deletes the entry of the
\* module-level dict sessions; the request is recorded in last
ClearSession(session_id) ==
    /\ sessions' = [x \in (DOMAIN sessions) \ {session_id} |-> sessions[x]]
    /\ last' = [NoTurn EXCEPT !.kind = "delete", !.session_id = session_id]
    /\ UNCHANGED << agentSessions, sessionFile, matcher, patternsFileOk, nTurns, call >>

NoCall == [op |-> "none"]

Init ==
    /\ agentSessions = << >>
    /\ sessions = << >>
    /\ sessionFile = << >>
    /\ matcher = None
    /\ patternsFileOk = TRUE
    /\ last = NoTurn
    /\ nTurns = 0
    /\ call = NoCall

\* a turn of the first session, without context
Turn ==
    \E user_input \in UserInputs, output \in ModelOutputs \cup {ModelCallFails} :
        ProcessUserInput("s1", user_input, NoContext, output)

\* a turn of the second session, with or without context
OtherTurn ==
    \E user_input \in OtherUserInputs, output \in OtherModelOutputs, context \in Contexts :
        ProcessUserInput("s2", user_input, context, output)

\* a client deletes a session of the store while the run has turns left
Delete ==
    /\ nTurns < MaxTurns
    /\ \E session_id \in DOMAIN agentSessions : ClearSession(session_id)

Next == Turn \/ OtherTurn \/ Delete

Spec == Init /\ [][Next]_vars

(***************************************************************************)
(* The service started with a sessions.json that an earlier run wrote:     *)
(* AIAgent.__init__ loads it into self.sessions (lines 75-83).  The file   *)
(* is written after the user message of a turn is appended and before the  *)
(* assistant turn is (lines 187-210), so the log of the session of the     *)
(* last saved turn ends with that turn's user message.  The file           *)
(* scenario_patterns.json of the deployment can be read or not             *)
(* (pattern_matcher.py 14-19).                                             *)
(***************************************************************************)

MaxPersisted == 3

\* the sequences over S of length lo..hi
SeqsOf(S, lo, hi) == UNION { [1..k -> S] : k \in lo..hi }

\* the user texts of the earlier run
PersistedTexts ==
    { <<"I","'","m"," ","p","l","a","n","n","i","n","g"," ","a"," ","w","e","d","d","i","n","g">>,  \* "I'm planning a wedding"
      <<"a"," ","h","o","u","s","e"," ","f","o","r"," ",Pound,"2","5","0",",","0","0","0">>,  \* 'a house for £250,000'
      <<"t","h","a","n","k","s">> }  \* 'thanks'

\* the saved log of a session with the user turns texts, each but the last
\* answered by 'Got it.'
RECURSIVE PersistedLog(_)
PersistedLog(texts) ==
    IF Len(texts) = 1
    THEN << Message("system", SystemPrompt), Message("user", texts[1]) >>
    ELSE PersistedLog(SubSeq(texts, 1, Len(texts) - 1))
         \o << Message("assistant", <<"G","o","t"," ","i","t",".">>),
                Message("user", texts[Len(texts)]) >>

RestartInit ==
    /\ \E texts \in SeqsOf(PersistedTexts, 0, MaxPersisted) :
          /\ sessionFile = IF texts = << >> THEN << >> ELSE [s \in {"s1"} |-> PersistedLog(texts)]
          /\ agentSessions = sessionFile
    /\ sessions = << >>
    /\ matcher = None
    /\ patternsFileOk \in BOOLEAN
    /\ last = NoTurn
    /\ nTurns = 0
    /\ call = NoCall

\* a turn of the loaded session
RestartTurn ==
    \E user_input \in { <<"3","0","0","k">>, <<"t","h","a","n","k","s">> },   \* '300k', 'thanks'
       output \in { <<"G","o","t"," ","i","t",".">>, M_Question, M_TagHome } :
        ProcessUserInput("s1", user_input, NoContext, output)

RestartSpec == RestartInit /\ [][RestartTurn]_vars

(***************************************************************************)
(* Direct calls of the pure parts: the amount extractor, the score of one  *)
(* scenario, the matcher, the tag parser, the parameter normalization and  *)
(* the parameters of the fallback, each on inputs drawn from a bounded     *)
(* set.  A call starts with its arguments and is then applied.             *)
(***************************************************************************)

MaxMessages == 2
MaxWords == 3
MaxHistory == 1
MaxParams == 2

\* user messages (lower case, as user_messages holds them)
A_1_5m == <<Pound,"1",".","5","m">>  \* '£1.5m'
A_300k == <<"3","0","0","k">>  \* '300k'
A_Commas == <<Pound,"1",",","5","0","0",",","0","0","0">>  \* '£1,500,000'
A_TargetOf == <<"t","a","r","g","e","t"," ","o","f"," ",Pound,"5","0","0","0">>  \* 'target of £5000'
A_Need500 == <<"i"," ","n","e","e","d"," ",Pound,"5","0","0">>  \* 'i need £500'
A_MakeIt2000 == <<"a","c","t","u","a","l","l","y"," ","m","a","k","e"," ","i","t"," ",Pound,"2","0","0","0">>  \* 'actually make it £2000'

AmountTexts ==
    { A_1_5m, A_300k, A_Commas, A_TargetOf, A_Need500, A_MakeIt2000,
      <<Pound,"4",".","1","m">>,  \* '£4.1m'
      <<"s","a","v","e"," ","2","0","0"," ","o","r"," ","3","0","0","k">>,  \* 'save 200 or 300k'
      <<"t","h","a","n","k","s">> }  \* 'thanks'

\* the words of the search windows
W_house == <<"h","o","u","s","e">>
W_buy == <<"b","u","y">>
W_a == <<"a">>
W_wedding == <<"w","e","d","d","i","n","g">>

Vocabulary ==
    { W_house, W_buy, W_a, W_wedding,
      <<"w","a","r","e","h","o","u","s","e">>,  \* 'warehouse'
      <<"m","o","r","t","g","a","g","e">>,  \* 'mortgage'
      <<"g","e","t","t","i","n","g">>,  \* 'getting'
      <<"m","a","r","r","i","e","d">> }  \* 'married'

\* the parts of a model output with a tag
S_buy_home == <<"b","u","y","_","h","o","m","e">>

\* the '|'-segments after the scenario id
TagSegments ==
    << <<"p","r","o","p","e","r","t","y","_","p","r","i","c","e",":","2","5","0","k">>,   \* 'property_price:250k'
       <<"p","u","r","c","h","a","s","e","_","d","a","t","e",":","2","0","2","7","-","0","6","-","0","1">>,  \* 'purchase_date:2027-06-01'
       <<"a","m","o","u","n","t",":","1",".","5","M">>,   \* 'amount:1.5M'
       <<"r","a","t","e",":","2",".","5">>,   \* 'rate:2.5'
       <<"c","o","s","t",":","3","0","0","0">>,   \* 'cost:3000'
       <<" ","s","l","o","t"," ",":"," ","1","2",":","3","0","-","1","4","0","0"," ">>,   \* ' slot : 12:30-1400 '
       <<"p","r","i","c","e",":","4",".","1","m">>,   \* 'price:4.1m'
       <<"u","r","g","e","n","t">> >>   \* 'urgent'

RECURSIVE JoinSegments(_, _)
JoinSegments(segments, n) ==
    IF n > Len(segments) THEN << >>
    ELSE <<"|">> \o TagSegments[segments[n]] \o JoinSegments(segments, n + 1)

\* prefix [INTENT:scenario|segment|...] suffix
TaggedText(prefix, scenario, segments, suffix) ==
    prefix \o TagOpen \o scenario \o JoinSegments(segments, 1) \o <<"]">> \o suffix

ExtractCalls ==
    { [op |-> "extractAmount", user_messages |-> ms, done |-> FALSE, result |-> NoAmount] :
        ms \in SeqsOf(AmountTexts, 1, MaxMessages) }

ScoreCalls ==
    { [op |-> "score", words |-> ws, n |-> n, done |-> FALSE, result |-> 0] :
        ws \in SeqsOf(Vocabulary, 1, MaxWords), n \in DOMAIN PatternLibrary }

MatchCalls ==
    { [op |-> "match", words |-> ws, history |-> << >>, done |-> FALSE, result |-> NoMatch] :
        ws \in SeqsOf(Vocabulary, 1, MaxWords) }
    \cup
    { [op |-> "match", words |-> ws, history |-> h, done |-> FALSE, result |-> NoMatch] :
        ws \in SeqsOf(Vocabulary, 1, 1), h \in SeqsOf(Vocabulary, 1, MaxHistory) }

NoParse == [scenario |-> << >>, params |-> EmptyDict, clean |-> << >>]

ParseCalls ==
    { [op |-> "parseTag", prefix |-> p, scenario |-> s, segments |-> g, suffix |-> x,
       done |-> FALSE, result |-> NoParse] :
        p \in { << >>, <<"S","u","r","e","!"," ">> },   \* '', 'Sure! '
        s \in { S_buy_home, <<"m","a","r","r","i","a","g","e">> },   \* 'buy_home', 'marriage'
        g \in SeqsOf(DOMAIN TagSegments, 0, MaxParams), x \in { << >>,   \* '', ' [INTENT:divorce|amount:1]'
                 <<" ","[","I","N","T","E","N","T",":","d","i","v","o","r","c","e","|","a","m","o","u","n","t",":","1","]">> } }

\* raw tag parameters: a key and the value the tag gave it
RawParams ==
    << << <<"c","o","s","t">>, IntVal(3000) >>,
       << <<"a","m","o","u","n","t">>, IntVal(5000) >>,
       << <<"p","r","i","c","e">>, IntVal(250000) >>,
       << TargetAmountKey, IntVal(7000) >>,
       << <<"t","o","t","a","l","C","o","s","t">>, IntVal(9000) >>,
       << <<"d","a","t","e">>, StrVal(<<"2","0","2","7","-","0","6","-","0","1">>) >>,
       << <<"v","a","l","u","e">>, IntVal(4000) >> >>

\* intent_params with the raw parameters numbered in picked
ParamsOf(picked) ==
    [k \in { RawParams[n][1] : n \in picked } |->
        RawParams[CHOOSE n \in picked : RawParams[n][1] = k][2]]

S_medical_emergency == <<"m","e","d","i","c","a","l","_","e","m","e","r","g","e","n","c","y">>

NormalizeCalls ==
    { [op |-> "normalize", scenario |-> s, params |-> ParamsOf(picked),
       done |-> FALSE, result |-> EmptyDict] :
        s \in { S_medical_emergency, S_buy_home,
                <<"m","a","r","r","i","a","g","e">>,   \* 'marriage'
                <<"d","i","v","o","r","c","e">>,   \* 'divorce'
                <<"c","h","i","l","d","b","i","r","t","h">>,   \* 'childbirth'
                <<"t","a","x","_","b","i","l","l">>,   \* 'tax_bill'
                <<"h","o","l","i","d","a","y">> },   \* 'holiday'
        picked \in { q \in SUBSET (DOMAIN RawParams) : Cardinality(q) <= MaxParams } }

\* the fallback of RULE 4 for a matched scenario id and an extracted amount
FallbackCalls ==
    { [op |-> "fallback", scenario |-> s, amount |-> a, done |-> FALSE, result |-> EmptyDict] :
        s \in { S_medical_emergency, S_buy_home,
                <<"m","a","r","r","i","a","g","e">>,   \* 'marriage'
                <<"d","i","v","o","r","c","e">>,   \* 'divorce'
                <<"c","h","i","l","d","b","i","r","t","h">>,   \* 'childbirth'
                <<"i","v","f","_","t","r","e","a","t","m","e","n","t">>,   \* 'ivf_treatment'
                <<"h","o","l","i","d","a","y">> },   \* 'holiday'
        a \in { 500, 2000, 250000 } }

Apply(result) ==
    /\ ~call.done
    /\ call' = [call EXCEPT !.done = TRUE, !.result = result]
    /\ UNCHANGED << agentSessions, sessions, sessionFile, matcher, patternsFileOk, last, nTurns >>

\* RULE 2 on user_messages
CallExtractAmount ==
    /\ call.op = "extractAmount"
    /\ Apply(ExtractAmount(call.user_messages))

\* _calculate_match_score(search_text, config['keywords']) for one scenario
CallCalculateMatchScore ==
    /\ call.op = "score"
    /\ Apply(CalculateMatchScore(JoinSpace(call.words), PatternLibrary[call.n].keywords))

\* matcher.match_scenario(text, conversation_history)
CallMatchScenario ==
    /\ call.op = "match"
    /\ Apply(MatchScenario(PatternLibrary, JoinSpace(call.words), call.history))

\* RULE 3 up to clean_message (lines 280-308), before the normalization
ParseTag(assistant_message) ==
    [scenario |-> TagScenario(assistant_message),
     params |-> TagParams(assistant_message),
     clean |-> StripTag(assistant_message)]

CallParseTag ==
    /\ call.op = "parseTag"
    /\ Apply(ParseTag(TaggedText(call.prefix, call.scenario, call.segments, call.suffix)))

\* the parameter normalization of the tag path (lines 353-377)
CallNormalize ==
    /\ call.op = "normalize"
    /\ Apply(Normalize(call.scenario, call.params))

\* intent_params of the fallback path (lines 392-406)
CallFallbackParams ==
    /\ call.op = "fallback"
    /\ Apply(FallbackParams(call.scenario, call.amount))

CallInit ==
    /\ agentSessions = << >>
    /\ sessions = << >>
    /\ sessionFile = << >>
    /\ matcher = None
    /\ patternsFileOk = TRUE
    /\ last = NoTurn
    /\ nTurns = 0
    /\ \/ call \in ExtractCalls
       \/ call \in ScoreCalls
       \/ call \in MatchCalls
       \/ call \in ParseCalls
       \/ call \in NormalizeCalls
       \/ call \in FallbackCalls

CallNext ==
    \/ CallExtractAmount
    \/ CallCalculateMatchScore
    \/ CallMatchScenario
    \/ CallParseTag
    \/ CallNormalize
    \/ CallFallbackParams

CallSpec == CallInit /\ [][CallNext]_vars

(***************************************************************************)
(* Properties of a turn (specification Spec).                              *)
(***************************************************************************)

\* the action RULE 3 builds from the tag of a model output
TagDerivedAction(assistant_message) ==
    ScenarioAction(TagScenario(assistant_message),
                   Normalize(TagScenario(assistant_message), TagParams(assistant_message)))

\* C1: whenever the model output of a turn contains a tag, the action of the
\* turn is the OPEN_CONFIG built from the tag (scenarioId the tag's scenario
\* id, params the normalized tag params), whatever the matcher and the
\* extractor returned and whether or not the output contains "?"; it is the
\* only action constructed in the turn.
C1_TagAlwaysWins ==
    (last.kind = "turn" /\ HasTag(last.assistant_message)) =>
        /\ last.response.action = TagDerivedAction(last.assistant_message)
        /\ last.emitted = << TagDerivedAction(last.assistant_message) >>

\* C2: in a turn whose model output has no tag but contains "?", no action is
\* emitted, even when the matcher returned a scenario and the extractor an
\* amount.
C2_QuestionSuppresses ==
    (/\ last.kind = "turn"
     /\ ~HasTag(last.assistant_message)
     /\ Contains(last.assistant_message, "?")) =>
        /\ last.response.action = NoAction
        /\ last.emitted = << >>

\* a turn with a match and an amount whose untagged output asks a question
C2_Witness ==
    /\ last.kind = "turn"
    /\ last.assistant_message = M_Question
    /\ last.goal_type # NoneText
    /\ last.amount > 0
    /\ last.response.action = NoAction

\* C3: in a turn whose model output has no tag, an OPEN_CONFIG action is
\* emitted if and only if the matcher returned a match, the extractor
\* returned a value (any extracted integer) and the output contains no "?";
\* its scenarioId is then the matched scenario id, and every other untagged
\* turn yields no action.
C3_FallbackIff ==
    (/\ last.kind = "turn"
     /\ ~last.response.error
     /\ ~HasTag(last.assistant_message)) =>
        /\ (last.response.action # NoAction) <=>
               (/\ last.goal_type # NoneText
                /\ last.amount # NoAmount
                /\ ~Contains(last.assistant_message, "?"))
        /\ (last.response.action # NoAction) =>
               (/\ last.response.action.type = "OPEN_CONFIG"
                /\ last.response.action.scenarioId = last.goal_type)

\* C4: every turn yields no action or exactly one, of type OPEN_CONFIG: at
\* most one action is constructed in a turn, and the action returned is the
\* one constructed.
C4_AtMostOneAction ==
    /\ Len(last.emitted) <= 1
    /\ \A i \in DOMAIN last.emitted : last.emitted[i].type = "OPEN_CONFIG"
    /\ IF last.emitted = << >>
       THEN last.response.action = NoAction
       ELSE last.response.action = last.emitted[1]

\* a turn with a tag, a match, an amount and no "?", and one action
C4_Witness ==
    /\ last.kind = "turn"
    /\ last.assistant_message = M_TagHome
    /\ last.goal_type # NoneText
    /\ last.amount > 0
    /\ Len(last.emitted) = 1
    /\ last.response.action.type = "OPEN_CONFIG"

(***************************************************************************)
(* Properties of the pure parts (specification CallSpec).                  *)
(***************************************************************************)

\* C5: on the user turns "I need £500", "actually make it £2000" (oldest
\* first) the extractor returns 2000, the amount of the newest turn.
C5_RecencyPreference ==
    (/\ call.op = "extractAmount"
     /\ call.done
     /\ call.user_messages = << A_Need500, A_MakeIt2000 >>) =>
        call.result = 2000

\* C6: on a single user turn the extractor returns the integer written:
\* "£1.5m" gives 1500000, "300k" gives 300000, "£1,500,000" gives 1500000 and
\* "target of £5000" gives 5000.
C6_AmountNotations ==
    (call.op = "extractAmount" /\ call.done) =>
        /\ call.user_messages = << A_1_5m >> => call.result = 1500000
        /\ call.user_messages = << A_300k >> => call.result = 300000
        /\ call.user_messages = << A_Commas >> => call.result = 1500000
        /\ call.user_messages = << A_TargetOf >> => call.result = 5000

\* the extractor has returned 1500000 for "£1.5m"
C6_Witness ==
    /\ call.op = "extractAmount"
    /\ call.done
    /\ call.user_messages = << A_1_5m >>
    /\ call.result = 1500000

\* the trigger occurs in the window as a whole word or phrase: its words are
\* consecutive words of the window
OccursAsWords(trigger, words) ==
    LET tw == Split(trigger, " ")
    IN  \E i \in 1..(Len(words) - Len(tw) + 1) : SubSeq(words, i, i + Len(tw) - 1) = tw

\* the score the rule gives, in hundredths
ClaimedScore(words, keywords) ==
    LET hits == { k \in DOMAIN keywords : OccursAsWords(keywords[k], words) }
        phrase == IF \E k \in hits : Len(Split(keywords[k], " ")) >= 2 THEN 30 ELSE 0
        multi == IF Cardinality(hits) >= 2 THEN 20 ELSE 0
    IN  IF hits = {} THEN 0
        ELSE IF 50 + phrase + multi > 100 THEN 100
        ELSE 50 + phrase + multi

\* C7: for every window and scenario the score is 0 when no trigger occurs as
\* a whole word or phrase (a trigger inside a longer word does not count);
\* otherwise 0.5, plus 0.3 once if a matched trigger is a phrase, plus 0.2 if
\* two or more triggers matched, capped at 1.0; so it is one of 0, 0.5, 0.7,
\* 0.8, 1.0.
C7_ScoreFormula ==
    (call.op = "score" /\ call.done) =>
        /\ call.result = ClaimedScore(call.words, PatternLibrary[call.n].keywords)
        /\ call.result \in { 0, 50, 70, 80, 100 }

\* "buy a house" against buy_home: a phrase and a second trigger, capped
C7_Witness ==
    /\ call.op = "score"
    /\ call.done
    /\ call.words = << W_buy, W_a, W_house >>
    /\ PatternLibrary[call.n].id = S_buy_home
    /\ call.result = 100

\* the score of scenario n on the search window of a match call
WindowScore(n) ==
    CalculateMatchScore(SearchText(JoinSpace(call.words), call.history),
                        PatternLibrary[n].keywords)

\* C8: match returns the scenario with the strictly highest score, the first
\* in library order among equals, with that score, if the score is at least
\* 0.45, and no match otherwise; one single-word hit (0.5) is accepted and no
\* hit (0.0) is rejected.
C8_FirstHighestScore ==
    (call.op = "match" /\ call.done) =>
        IF \E n \in DOMAIN PatternLibrary : WindowScore(n) >= 45
        THEN \E n \in DOMAIN PatternLibrary :
                /\ call.result.id = PatternLibrary[n].id
                /\ call.result.score = WindowScore(n)
                /\ \A m \in DOMAIN PatternLibrary : WindowScore(m) <= WindowScore(n)
                /\ \A m \in 1..(n - 1) : WindowScore(m) < WindowScore(n)
        ELSE call.result = NoMatch

\* two scenarios with one single-word hit each: the first one is returned
C8_Witness ==
    /\ call.op = "match"
    /\ call.done
    /\ call.words = << W_wedding, W_house >>
    /\ call.result.id = S_buy_home
    /\ call.result.score = 50

\* what the rules of the tag parser say of each segment of TagSegments: its
\* key, its value, the first rule that applies and the number n / 10^e the
\* value writes before its suffix
SegmentReading ==
    << [key |-> <<"p","r","o","p","e","r","t","y","_","p","r","i","c","e">>,
        value |-> <<"2","5","0","k">>, rule |-> "k", n |-> 250, e |-> 0],
       [key |-> <<"p","u","r","c","h","a","s","e","_","d","a","t","e">>,
        value |-> <<"2","0","2","7","-","0","6","-","0","1">>, rule |-> "date", n |-> 0, e |-> 0],
       [key |-> <<"a","m","o","u","n","t">>,
        value |-> <<"1",".","5","M">>, rule |-> "m", n |-> 15, e |-> 1],
       [key |-> <<"r","a","t","e">>,
        value |-> <<"2",".","5">>, rule |-> "float", n |-> 25, e |-> 1],
       [key |-> <<"c","o","s","t">>,
        value |-> <<"3","0","0","0">>, rule |-> "int", n |-> 3000, e |-> 0],
       [key |-> <<"s","l","o","t">>,
        value |-> <<"1","2",":","3","0","-","1","4","0","0">>, rule |-> "date", n |-> 0, e |-> 0],
       [key |-> <<"p","r","i","c","e">>,
        value |-> <<"4",".","1","m">>, rule |-> "m", n |-> 41, e |-> 1],
       [key |-> << >>,
        value |-> << >>, rule |-> "none", n |-> 0, e |-> 0] >>

\* the value the coercion rules give
ClaimedValue(reading) ==
    CASE reading.rule = "date" -> StrVal(reading.value)
      [] reading.rule = "k" -> IntVal((reading.n * 1000) \div Pow10(reading.e))
      [] reading.rule = "m" -> IntVal((reading.n * 1000000) \div Pow10(reading.e))
      [] reading.rule = "float" -> FloatVal(reading.n, reading.e)
      [] reading.rule = "int" -> IntVal(reading.n)

\* the parameters the rules give for the segments, in their order
RECURSIVE ClaimedParams(_, _, _)
ClaimedParams(segments, n, params) ==
    IF n > Len(segments) THEN params
    ELSE IF SegmentReading[segments[n]].rule = "none"
    THEN ClaimedParams(segments, n + 1, params)
    ELSE ClaimedParams(segments, n + 1,
                       DictSet(params, SegmentReading[segments[n]].key,
                               ClaimedValue(SegmentReading[segments[n]])))

\* C10: parseTag takes the first tag, the text before the first "|" as
\* scenario id, splits each later segment on its first ":" into key and
\* value, and coerces each value by the first rule that applies (10
\* characters with a hyphen: the string; ending in k: number x 1,000 as an
\* integer; ending in m: number x 1,000,000 as an integer; containing ".": a
\* float; otherwise an integer); stripping the tag leaves the text around it.
\* So "Sure! [INTENT:buy_home|property_price:250k|purchase_date:2027-06-01]"
\* gives buy_home, property_price = 250000, purchase_date = "2027-06-01" and
\* the message "Sure!".
C10_ParseTag ==
    (call.op = "parseTag" /\ call.done) =>
        /\ call.result.scenario = call.scenario
        /\ call.result.params = ClaimedParams(call.segments, 1, EmptyDict)
        /\ call.result.clean = Strip(call.prefix)
\* C12: the confidence of a turn's response is 0.9 (9 tenths) exactly when
\* the response carries an intent (a scenario id) and a non-empty parameter
\* set, and 0.0 otherwise; every error turn has confidence 0.0.
C12_BinaryConfidence ==
    last.kind = "turn" =>
        /\ last.response.confidence \in {0, 9}
        /\ last.response.confidence = 9 <=>
              /\ last.response.intent \notin {NoneText, << >>}
              /\ last.response.params # NoneDict
        /\ last.response.error => last.response.confidence = 0

\* a turn that produced an action and has confidence 0.9
C12_Witness ==
    /\ last.kind = "turn"
    /\ ~last.response.error
    /\ last.response.confidence = 9
    /\ last.response.action # NoAction

\* the log a turn of session_id starts from: the stored log, or for a new
\* session the system prompt alone
LogBeforeTurn(session_id) ==
    IF session_id \in DOMAIN agentSessions
    THEN agentSessions[session_id]
    ELSE << Message("system", SystemPrompt) >>

\* C13: a turn whose model call fails returns the error result and leaves the
\* log of its session as it was before the turn: neither the user message nor
\* a context message of the failed turn stays in the log.
C13_FailedCallLeavesLog ==
    [][(/\ nTurns' = nTurns + 1
        /\ last'.kind = "turn"
        /\ last'.response = ErrorResponse(ModelCallFails)) =>
           (last'.session_id \in DOMAIN agentSessions' =>
              agentSessions'[last'.session_id] = LogBeforeTurn(last'.session_id))]_vars

\* C14: the turn that follows the deletion of its session starts from a fresh
\* log: the user messages its matcher window, amount scan and model context
\* are built from are its own user text alone.
C14_DeleteClearsLog ==
    [][(/\ last.kind = "delete"
        /\ last'.kind = "turn"
        /\ last'.session_id = last.session_id
        /\ ~last'.response.error) =>
           last'.user_messages = << Lower(last'.user_input) >>]_vars

\* user texts that are an amount and nothing else, with the amount they state
AmountOnlyTexts ==
    << << <<"3","0","0","k">>, 300000 >>,   \* '300k'
       << <<Pound,"2","0","0","0">>, 2000 >> >>   \* '£2000'

\* text contains a trigger of the n-th scenario of the library
HasTrigger(n, text) ==
    \E k \in DOMAIN PatternLibrary[n].keywords : KeywordFound(text, PatternLibrary[n].keywords[k])

\* the user turns of the session that precede the current one and are within
\* the matcher window
EarlierInWindow(user_messages) ==
    Range(LastN(SubSeq(user_messages, 1, Len(user_messages) - 1), HistoryWindow))

\* C15: when an earlier user turn within the matcher window contains a trigger
\* of scenario S, the current user turn is an amount A and nothing else, and
\* the model output has no tag and no "?", the turn emits OPEN_CONFIG for S
\* with the amount A among its parameters.
C15_ContextKept ==
    (/\ last.kind = "turn"
     /\ last.user_messages # << >>
     /\ ~HasTag(last.assistant_message)
     /\ ~Contains(last.assistant_message, "?")) =>
        \A a \in DOMAIN AmountOnlyTexts : \A n \in DOMAIN PatternLibrary :
            (/\ Lower(last.user_input) = AmountOnlyTexts[a][1]
             /\ \E m \in EarlierInWindow(last.user_messages) : HasTrigger(n, m)) =>
                /\ last.response.action.type = "OPEN_CONFIG"
                /\ last.response.action.scenarioId = PatternLibrary[n].id
                /\ \E k \in DOMAIN last.response.action.params :
                      last.response.action.params[k] = IntVal(AmountOnlyTexts[a][2])

\* C16: a turn sent with a session id that is not in the store creates the
\* session: afterwards its log begins with the system prompt, holds no second
\* system-prompt turn, and holds the user message of this turn; the turn
\* ends in the error result only for a cause that fails a turn of a known
\* session too (the model call or the coercion of a tag value).
C16_UnknownSessionCreated ==
    [][(/\ nTurns' = nTurns + 1
        /\ last'.kind = "turn"
        /\ last'.session_id \notin DOMAIN agentSessions) =>
           /\ last'.session_id \in DOMAIN agentSessions'
           /\ LET log == agentSessions'[last'.session_id]
              IN  /\ log[1] = Message("system", SystemPrompt)
                  /\ \A i \in 2..Len(log) : log[i].content # SystemPrompt
                  /\ \E i \in 2..Len(log) : log[i] = Message("user", last'.user_input)
           /\ last'.response.error =>
                 last'.response.message[2] \in {ModelCallFails, OverflowError}]_vars

\* clean_message of a model output: the output with its tags stripped
CleanedOutput(assistant_message) ==
    IF HasTag(assistant_message) THEN StripTag(assistant_message) ELSE assistant_message

\* C17: when the cleaned model output of a turn is empty and the turn
\* produced an action, the message returned and the assistant turn appended
\* to the session log are the fixed acknowledgement; no assistant turn of any
\* session log has empty content.
C17_NoBlankAssistantTurn ==
    /\ (/\ last.kind = "turn"
         /\ ~last.response.error
         /\ last.response.action # NoAction
         /\ CleanedOutput(last.assistant_message) = << >>) =>
            /\ last.response.message = Acknowledgement
            /\ agentSessions[last.session_id][Len(agentSessions[last.session_id])]
                  = Message("assistant", Acknowledgement)
    /\ \A s \in DOMAIN agentSessions : \A i \in DOMAIN agentSessions[s] :
          agentSessions[s][i].role = "assistant" => agentSessions[s][i].content # << >>

\* a turn whose output is a tag and nothing else, answered by the acknowledgement
C17_Witness ==
    /\ last.kind = "turn"
    /\ HasTag(last.assistant_message)
    /\ CleanedOutput(last.assistant_message) = << >>
    /\ last.response.action # NoAction
    /\ last.response.message = Acknowledgement

\* C18: the message a turn returns and every assistant turn stored in a
\* session log contain no substring of the tag form [INTENT:...].
C18_NoTagInMessage ==
    /\ last.kind = "turn" => ~HasTag(last.response.message)
    /\ \A s \in DOMAIN agentSessions : \A i \in DOMAIN agentSessions[s] :
          agentSessions[s][i].role = "assistant" => ~HasTag(agentSessions[s][i].content)

\* C20: the scenario and score a turn's matcher returns are those of the
\* window made of the current user text and the 3 user turns that precede it
\* in the session (fewer if there are fewer): a trigger in the third user
\* turn before the current one contributes, a trigger in an older turn only
\* does not.
C20_WindowOfThreePreceding ==
    (last.kind = "turn" /\ last.user_messages # << >>) =>
        [id |-> last.goal_type, score |-> last.score] =
            MatchScenario(PatternLibrary, last.user_input,
                          SubSeq(last.user_messages, 1, Len(last.user_messages) - 1))

(***************************************************************************)
(* Properties of the amount extractor over several turns (CallSpec).       *)
(***************************************************************************)

\* what each of the four patterns finds in one user text, in priority order
PatternResults(s) ==
    << SearchMillions(s), SearchThousands(s), SearchCommaPounds(s), SearchContextNumber(s) >>

\* the patterns that match the text
MatchingPatterns(s) == { p \in 1..4 : PatternResults(s)[p] # NoAmount }

Least(S) == CHOOSE x \in S : \A y \in S : x <= y
Greatest(S) == CHOOSE x \in S : \A y \in S : x >= y

\* a keyword-prefixed plain number followed by a thousands notation
T_SaveOr300k == <<"s","a","v","e"," ","2","0","0"," ","o","r"," ","3","0","0","k">>  \* 'save 200 or 300k'

\* C19: the extractor's result comes from the newest user turn that any of
\* the four patterns matches, and within that turn from the highest-priority
\* pattern that matches (millions, thousands, comma-separated pounds,
\* keyword-prefixed number); without a matching turn there is no amount.
\* "save 200 or 300k" gives 300000 although "save 200" comes first, and
\* ["£1.5m", "target of £5000"] gives 5000 although the older turn matches
\* a higher-priority pattern.
C19_NewestTurnHighestPriority ==
    (call.op = "extractAmount" /\ call.done) =>
        LET ms == call.user_messages
            turns == { i \in DOMAIN ms : MatchingPatterns(ms[i]) # {} }
        IN  /\ turns = {} => call.result = NoAmount
            /\ turns # {} =>
                  call.result = PatternResults(ms[Greatest(turns)])
                                    [Least(MatchingPatterns(ms[Greatest(turns)]))]
            /\ ms[Len(ms)] = T_SaveOr300k => call.result = 300000
            /\ ms = << A_1_5m, A_TargetOf >> => call.result = 5000

C19_Witness ==
    /\ call.op = "extractAmount" /\ call.done
    /\ call.user_messages = << A_1_5m, T_SaveOr300k >>
    /\ call.result = 300000

(***************************************************************************)
(* Properties of the parameter normalization (specification CallSpec).     *)
(***************************************************************************)

\* the (raw key, canonical key) pairs the schema of a scenario declares, when
\* the schema is a mapping
DeclaredPairs(scenario) ==
    IF HasMapping(TagParamMappings, scenario)
       /\ MappingOf(TagParamMappings, scenario).single = NoneText
    THEN Range(MappingOf(TagParamMappings, scenario).pairs)
    ELSE {}

\* the raw keys of params that the schema renames to canonical
RawKeysFor(scenario, params, canonical) ==
    { pr[1] : pr \in { q \in DeclaredPairs(scenario) :
                          q[2] = canonical /\ q[1] \in DOMAIN params } }

\* C11: for a scenario whose schema is a mapping, every declared raw key of
\* the tag parameters ends under its canonical key, with the value the tag
\* gave it (the value of one of the raw keys when several share the canonical
\* key), and its value is under no other key, neither the raw name nor the
\* generic targetAmount;
\* normalize(medical_emergency, {cost: 3000}) is exactly {totalCost: 3000}.
C11_SpecificMappingWins ==
    (call.op = "normalize" /\ call.done) =>
        /\ \A pr \in DeclaredPairs(call.scenario) :
              pr[1] \in DOMAIN call.params =>
                /\ pr[2] \in DOMAIN call.result
                /\ call.result[pr[2]] \in
                      { call.params[k] : k \in RawKeysFor(call.scenario, call.params, pr[2]) }
                /\ \A k \in (DOMAIN call.result) \ {pr[2]} :
                      call.result[k] # call.params[pr[1]]
        /\ (call.scenario = S_medical_emergency
             /\ call.params = DictSet(EmptyDict, <<"c","o","s","t">>, IntVal(3000))) =>
              call.result = DictSet(EmptyDict, <<"t","o","t","a","l","C","o","s","t">>, IntVal(3000))

C11_Witness ==
    /\ call.op = "normalize" /\ call.done
    /\ call.scenario = S_medical_emergency
    /\ call.params = DictSet(EmptyDict, <<"c","o","s","t">>, IntVal(3000))
    /\ call.result = DictSet(EmptyDict, <<"t","o","t","a","l","C","o","s","t">>, IntVal(3000))

(***************************************************************************)
(* Properties of the tag coercion inside a turn (specification Spec).      *)
(***************************************************************************)

\* C21: a turn whose model output has a tag never ends in the error result,
\* and every value of the tag is stored either as a typed number or as the
\* raw string the tag gave under that key.
C21_CoercionNeverFails ==
    (last.kind = "turn" /\ HasTag(last.assistant_message)) =>
        /\ ~last.response.error
        /\ \A k \in DOMAIN TagParams(last.assistant_message) :
              TagParams(last.assistant_message)[k].t \in {"int", "float", "str"}

(***************************************************************************)
(* Properties of the normalized parameters (specification CallSpec).       *)
(***************************************************************************)

\* the keys of params that carry an amount before normalization: targetAmount
\* and the generic synonyms
AmountKeysIn(params) == (Range(GENERIC_KEYS) \cup {TargetAmountKey}) \cap DOMAIN params

\* the schema of the scenario is a single string slot
HasSingleSlot(scenario) ==
    /\ HasMapping(TagParamMappings, scenario)
    /\ MappingOf(TagParamMappings, scenario).single # NoneText

\* C22: for a scenario whose schema is a single string slot, tag parameters
\* that give the amount as targetAmount or as one generic synonym are
\* normalized to the slot's name: the slot holds that amount and the raw key
\* is gone; the key targetAmount is never present after normalization.
C22_SingleSlotRename ==
    (call.op = "normalize" /\ call.done /\ HasSingleSlot(call.scenario)) =>
        /\ TargetAmountKey \notin DOMAIN call.result
        /\ Cardinality(AmountKeysIn(call.params)) = 1 =>
              \A k \in AmountKeysIn(call.params) :
                 /\ MappingOf(TagParamMappings, call.scenario).single \in DOMAIN call.result
                 /\ call.result[MappingOf(TagParamMappings, call.scenario).single] = call.params[k]
                 /\ k \notin DOMAIN call.result

\* normalize(childbirth, {amount: 5000}) = {oneOffCosts: 5000}
C22_Witness ==
    /\ call.op = "normalize" /\ call.done
    /\ call.scenario = <<"c","h","i","l","d","b","i","r","t","h">>
    /\ call.params = DictSet(EmptyDict, <<"a","m","o","u","n","t">>, IntVal(5000))
    /\ call.result = DictSet(EmptyDict, <<"o","n","e","O","f","f","C","o","s","t","s">>, IntVal(5000))

\* the canonical monetary key of a scenario: the slot of a string schema, the
\* key a mapping schema sends targetAmount to
CanonicalAmountKeys(scenario) ==
    IF HasSingleSlot(scenario) THEN { MappingOf(TagParamMappings, scenario).single }
    ELSE { pr[2] : pr \in { q \in DeclaredPairs(scenario) : q[1] = TargetAmountKey } }

\* C23: after normalization at most one amount-like key is populated: the
\* result never holds targetAmount together with the scenario's canonical
\* monetary key, and never the canonical monetary key together with a
\* leftover generic synonym.
C23_OneAmountKey ==
    (call.op = "normalize" /\ call.done) =>
        \A c \in CanonicalAmountKeys(call.scenario) \cap DOMAIN call.result :
            /\ TargetAmountKey \notin DOMAIN call.result
            /\ Range(GENERIC_KEYS) \cap DOMAIN call.result = {}

\* C24: for a scenario whose schema is a mapping that sends targetAmount to a
\* canonical key, an amount given under a generic synonym (amount, cost,
\* value, price, total) ends under that canonical key, and the key
\* targetAmount never remains in the normalized parameters.
C24_SynonymToCanonical ==
    (call.op = "normalize" /\ call.done /\ ~HasSingleSlot(call.scenario)) =>
        \A c \in CanonicalAmountKeys(call.scenario) :
            /\ TargetAmountKey \notin DOMAIN call.result
            /\ \A k \in AmountKeysIn(call.params) \ {TargetAmountKey} :
                  Cardinality(AmountKeysIn(call.params)) = 1 =>
                     /\ c \in DOMAIN call.result
                     /\ call.result[c] = call.params[k]

(***************************************************************************)
(* Properties of a service whose pattern library cannot be loaded          *)
(* (specification RestartSpec).                                            *)
(***************************************************************************)

\* C25: when the pattern library cannot be loaded, a turn does not fail: it
\* is decided as if no scenario matched (a tag in the model output yields its
\* action, an untagged output yields no action) and the assistant reply is
\* appended to the log of the session.
C25_LoadFailureDisablesMatching ==
    (last.kind = "turn" /\ ~patternsFileOk /\ last.assistant_message # NoneText) =>
        /\ ~last.response.error
        /\ last.goal_type = NoneText
        /\ last.response.action =
              (IF HasTag(last.assistant_message)
               THEN TagDerivedAction(last.assistant_message) ELSE NoAction)
        /\ agentSessions[last.session_id][Len(agentSessions[last.session_id])].role = "assistant"

(***************************************************************************)
(* Properties of the session log and its saved copy (specification Spec).  *)
(***************************************************************************)

\* C26: when a turn has completed, the saved copy of the log of its session
\* holds every entry of the log in memory, the assistant turn of this turn
\* included.
C26_FlushedAfterTurn ==
    (last.kind = "turn" /\ ~last.response.error) =>
        /\ last.session_id \in DOMAIN sessionFile
        /\ sessionFile[last.session_id] = agentSessions[last.session_id]

(***************************************************************************)
(* The fallback path against the tag path (specification CallSpec).        *)
(***************************************************************************)

\* C27: for every scenario id and amount, the parameters of the fallback
\* action equal the result of normalizing {targetAmount: amount} for that
\* scenario on the tag path.
C27_FallbackNamesSlotAsNormalizer ==
    (call.op = "fallback" /\ call.done) =>
        call.result = Normalize(call.scenario,
                                DictSet(EmptyDict, TargetAmountKey, IntVal(call.amount)))

(***************************************************************************)
(* Frame of a turn on the session store (specification Spec).              *)
(***************************************************************************)

\* C28: a turn of session S only appends to the log of S: every log of the
\* store keeps its entries at their positions and does not shrink, the log
\* of every session other than S is unchanged, and no session other than S
\* is added to the store.
C28_AppendOnly ==
    [][(nTurns' = nTurns + 1 /\ last'.kind = "turn") =>
          /\ DOMAIN agentSessions' \subseteq (DOMAIN agentSessions) \cup {last'.session_id}
          /\ \A s \in DOMAIN agentSessions :
                /\ s \in DOMAIN agentSessions'
                /\ Len(agentSessions'[s]) >= Len(agentSessions[s])
                /\ SubSeq(agentSessions'[s], 1, Len(agentSessions[s])) = agentSessions[s]
                /\ s # last'.session_id => agentSessions'[s] = agentSessions[s]]_vars

\* a completed turn of one session while the store holds the log of the
\* other one
C28_Witness ==
    /\ last.kind = "turn" /\ ~last.response.error
    /\ DOMAIN agentSessions = {"s1", "s2"}
    /\ Len(agentSessions[last.session_id]) >= 3

(***************************************************************************)
(* The fallback over the turns of a session (specification Spec).          *)
(***************************************************************************)

\* the user turns of the session before the current one
EarlierTurns(user_messages) == Range(SubSeq(user_messages, 1, Len(user_messages) - 1))

\* C29: in a turn whose own user text contains neither a trigger nor an
\* amount, the fallback emits OPEN_CONFIG whenever a trigger lies within the
\* matcher window, some earlier user turn of the session contains an amount,
\* and the model output has no tag and no "?".
C29_FallbackWithoutMemory ==
    (/\ last.kind = "turn"
     /\ last.user_messages # << >>
     /\ ~HasTag(last.assistant_message)
     /\ ~Contains(last.assistant_message, "?")
     /\ AmountOf(Lower(last.user_input)) = NoAmount
     /\ \A n \in DOMAIN PatternLibrary : ~HasTrigger(n, Lower(last.user_input))
     /\ \E n \in DOMAIN PatternLibrary :
           \E m \in EarlierInWindow(last.user_messages) : HasTrigger(n, m)
     /\ \E m \in EarlierTurns(last.user_messages) : AmountOf(m) # NoAmount) =>
        /\ last.response.action.type = "OPEN_CONFIG"
        /\ Len(last.emitted) = 1

(***************************************************************************)
(* Agreement of the fields of a response (specification Spec).             *)
(***************************************************************************)

\* C30: the response of a turn carries confidence 0.9 exactly when it carries
\* an action, and when it carries an action its intent is the action's
\* scenarioId and its params are the action's params.
C30_ResponseFieldsAgree ==
    last.kind = "turn" =>
        /\ last.response.confidence = 9 <=> last.response.action # NoAction
        /\ last.response.action # NoAction =>
              /\ last.response.intent = last.response.action.scenarioId
              /\ last.response.params = last.response.action.params

====
